---- MODULE Spec2Model ----
(***************************************************************************)
(* A model of mysqlbinlogo: the time-window file locator (sequential and   *)
(* concurrent), the per-file event extractor, the extraction worker pool   *)
(* of Analyze, and the deduplicator.                                       *)
(*                                                                         *)
(* Representation.  A time.Time is the integer number of Unix seconds; the *)
(* zero time.Time (IsZero) is ZeroTime, an instant earlier than every      *)
(* timestamp by far more than 24h.  A string that the code takes apart     *)
(* (a file name) is a sequence of one-character strings.  TLC integers are *)
(* 32 bits wide, so the uint32 of SQLEvent.Position is modelled as an      *)
(* unsigned word of PosWidth bits.                                         *)
(***************************************************************************)
EXTENDS Integers, Sequences, FiniteSets, TLC

VARIABLES
    \* ---- deduplication (analyzer.go removeDuplicateEvents)
    dpc,              \* "in" -> "once" -> "twice"
    allEvents,        \* the pooled events handed to removeDuplicateEvents
    uniqueEvents,     \* its first result
    duplicateCount,   \* its second result
    uniqueEvents2,    \* the result of running it again on uniqueEvents
    duplicateCount2,  \* the duplicate count of that second run
    \* ---- run configuration (config.Config)
    cfgStartTime,     \* Config.StartTime
    cfgEndTime,       \* Config.EndTime
    cfgWorkers,       \* Config.Workers
    cfgVerbose,       \* Config.Verbose
    \* ---- extraction of one file (ExtractFromSingleFile)
    xpc,              \* "ready" -> "returned" | "crashed"
    xFile,            \* the file handed to ExtractFromSingleFile
    xStream,          \* what the file's stream delivers: events, then how it ends
    xResult,          \* what the call returned
    xDeadline,        \* the number of reads after which the call's 60s were over
    \* ---- the extraction phase of Analyze (analyzer.go:134-234)
    targetFiles,      \* the files the locator selected, in its order
    fileStreams,      \* file name -> what that file's stream delivers
    crashed,          \* an unrecovered panic ended the process
    fileChan,         \* the buffered job channel
    fileChanClosed,
    feedIdx,          \* the feeding goroutine: index of the next file to send
    wpc,              \* extraction worker -> "range" | "extract" | "exited"
    wFile,            \* extraction worker -> the file it holds
    eventChan,        \* buffered channel of per-file event lists
    errorChan,        \* buffered channel of per-file errors
    eventChanClosed,
    errorChanClosed,
    closerPc,         \* the closing goroutine: "wait" | "closeErr" | "done"
    cpc,              \* Analyze itself: "off" | "collect" | "verbose" | "pooled"
    processedFiles,   \* the collector's count (verbose mode: files handled)
    extracted,        \* history: file name -> the result its extraction gave
    \* ---- the locator (efficient_finder.go, concurrent_finder.go)
    lpc,              \* "off" | "start" | "running" | "done" | "handed"
    files,            \* the catalog list given to the locator (sorted in place)
    behaviour,        \* file name -> how its probes go: failures first, then a range
    locAlgo,          \* "none" | "efficient" | "concurrent"
    locErr,           \* the locator returned an error
    jobs,             \* the buffered job channel
    jobsClosed,
    jobIdx,           \* the distributing goroutine: index of the next job
    swpc,             \* search worker -> "range" | "attempt" | "sleep" | "exited"
    swJob,            \* search worker -> the job it holds
    swRetry,          \* search worker -> the loop variable retry
    swErr,            \* search worker -> err of its last attempt
    results,          \* the buffered result channel
    resultsClosed,
    allResults,       \* processSearchResults: the results collected so far
    probed,           \* history: the files the sequential scan visited, in order
    attempts,         \* history: file name -> probe attempts made
    sleeps,           \* history: file name -> 100ms pauses taken
    conns,            \* the syncers with an open stream: [owner, file, serverId]
    \* ---- one range probe (getFileTimeRangeQuick)
    ppc,              \* "off" | "ready" | "returned"
    pStream,          \* the stream the probe reads
    pSize,            \* the file's recorded size
    pChecked,         \* the call was made to the edition with the boundary test
    pDeadline,        \* the number of reads after which the call's context was done
    pResult,          \* what the call returned
    \* ---- the end of Analyze, run twice over the same extracted data
    rpc,              \* "off" | "in" | "once" | "twice"
    perFile,          \* file name -> the events its extraction returned
    report,           \* what outputResults wrote in the first run
    report2,          \* what it wrote in the second run
    \* ---- main.go: the command line and the start of Analyze
    mpc,              \* "off" | "start" | "connect" | "list" | "locate" | "exited"
    argStart,         \* the --start-time argument
    argEnd,           \* the --end-time argument
    exitCode,         \* the status of os.Exit, 0 while the process runs
    message,          \* the message logged before os.Exit
    touched,          \* what was asked of the server so far
    \* ---- one call of a formatting function
    fpc,              \* "off" | "ready" | "returned"
    fIn,              \* the argument: a value, or the rows of an update event
    fOut,             \* what the call returned
    \* ---- tallies of the concurrent search (concurrent_finder.go)
    jobsTaken,        \* file -> how often it was received from jobs
    resultsSent,      \* file -> how many results were sent for it
    resultsReceived   \* how many results processSearchResults has received

dedupVars == <<dpc, allEvents, uniqueEvents, duplicateCount, uniqueEvents2, duplicateCount2>>

cfgVars == <<cfgStartTime, cfgEndTime, cfgWorkers, cfgVerbose>>

extractVars == <<xpc, xFile, xStream, xResult, xDeadline>>

poolVars == <<targetFiles, fileStreams, crashed, fileChan, fileChanClosed, feedIdx, wpc, wFile,
              eventChan, errorChan, eventChanClosed, errorChanClosed, closerPc, cpc,
              processedFiles, extracted>>

locVars == <<lpc, files, behaviour, locAlgo, locErr, jobs, jobsClosed, jobIdx, swpc, swJob, swRetry,
             swErr, results, resultsClosed, allResults, probed, attempts, sleeps, conns>>

probeVars == <<ppc, pStream, pSize, pChecked, pDeadline, pResult>>

reportVars == <<rpc, perFile, report, report2>>

mainVars == <<mpc, argStart, argEnd, exitCode, message, touched>>

formatVars == <<fpc, fIn, fOut>>

tallyVars == <<jobsTaken, resultsSent, resultsReceived>>

vars == <<dedupVars, cfgVars, extractVars, poolVars, locVars, probeVars, reportVars, mainVars, formatVars, tallyVars>>

\* what each part of the model leaves alone
outsideDedup == <<cfgVars, extractVars, poolVars, locVars, probeVars, reportVars, mainVars, formatVars, tallyVars>>
outsideExtract == <<dedupVars, poolVars, locVars, probeVars, reportVars, mainVars, formatVars, tallyVars>>
dedupRest == <<dpc, uniqueEvents, duplicateCount, uniqueEvents2, duplicateCount2>>
outsidePool == <<dedupRest, extractVars, locVars, probeVars, reportVars, mainVars, formatVars, tallyVars>>
poolRest == <<fileStreams, crashed, fileChan, fileChanClosed, feedIdx, wpc, wFile, eventChan, errorChan,
              eventChanClosed, errorChanClosed, closerPc, cpc, processedFiles, extracted>>
outsideLocate == <<dedupVars, cfgVars, extractVars, poolRest, probeVars, reportVars, mainVars, formatVars, tallyVars>>
outsideSearch == <<dedupVars, cfgVars, extractVars, poolRest, probeVars, reportVars, mainVars, formatVars>>
outsideProbe == <<dedupVars, cfgVars, extractVars, poolVars, locVars, reportVars, mainVars, formatVars, tallyVars>>
outsideReport == <<dedupVars, cfgVars, extractVars, poolVars, locVars, probeVars, mainVars, formatVars, tallyVars>>
outsideMain == <<dedupVars, extractVars, poolVars, locVars, probeVars, reportVars, formatVars, tallyVars>>
outsideFormat == <<dedupVars, cfgVars, extractVars, poolVars, locVars, probeVars, reportVars, mainVars, tallyVars>>

\* ------------------------------------------------------------------------
\* Bounds of the model
\* ------------------------------------------------------------------------
PosWidth == 4        \* bits of the word that models uint32 Position
MaxPooled == 4       \* longest pooled event list given to the deduplicator
MaxStream == 3       \* most events one modelled file stream delivers
MaxTargets == 2      \* most target files in the modelled extraction phase
MaxWorkers == 2      \* largest configured worker count
MaxFiles == 2        \* most files in the catalog given to the locator
MaxFails == 11       \* most failing probes of one file before its stream starts
MaxSegments == 3     \* most runs of equal events in the stream of a modelled probe

\* ------------------------------------------------------------------------
\* Generic helpers
\* ------------------------------------------------------------------------
Range(s) == {s[i] : i \in 1..Len(s)}

RECURSIVE Pow2(_)
Pow2(n) == IF n = 0 THEN 1 ELSE 2 * Pow2(n - 1)

SeqsUpTo(S, n) == UNION {[1..m -> S] : m \in 0..n}

\* all orderings (sequences without repetition) of the finite set S
Orderings(S) == {p \in [1..Cardinality(S) -> S] : \A i, j \in 1..Cardinality(S) : i # j => p[i] # p[j]}

\* ^uint32(0): the all-ones word
MaxUint32 == Pow2(PosWidth) - 1

\* the zero value of time.Time, as Unix seconds (see the module comment)
ZeroTime == 0 - 2000000000

\* ------------------------------------------------------------------------
\* config.SQLEvent, and the zero value config.SQLEvent{}
\* ------------------------------------------------------------------------
SQLEvent(pos, ts, fname, etype) ==
    [Position |-> pos, Timestamp |-> ts, Filename |-> fname, EventType |-> etype]

ZeroEvent == SQLEvent(0, ZeroTime, <<>>, "")

\* ------------------------------------------------------------------------
\* extractFileNumber (analyzer.go:483)
\* ------------------------------------------------------------------------
Digits == {"0", "1", "2", "3", "4", "5", "6", "7", "8", "9"}

DigitVal(c) ==
    CASE c = "0" -> 0 [] c = "1" -> 1 [] c = "2" -> 2 [] c = "3" -> 3 [] c = "4" -> 4
      [] c = "5" -> 5 [] c = "6" -> 6 [] c = "7" -> 7 [] c = "8" -> 8 [] c = "9" -> 9

\* index of the last "." at or before i, 0 when there is none
RECURSIVE LastDot(_, _)
LastDot(name, i) ==
    IF i = 0 THEN 0
    ELSE IF name[i] = "." THEN i ELSE LastDot(name, i - 1)

\* strings.Split(filename, "."): the number of parts and the last part
SplitCount(name) == Cardinality({i \in 1..Len(name) : name[i] = "."}) + 1

SplitLast(name) == SubSeq(name, LastDot(name, Len(name)) + 1, Len(name))

\* strings.TrimLeft(s, "0")
RECURSIVE TrimLeft0(_)
TrimLeft0(s) == IF s # <<>> /\ Head(s) = "0" THEN TrimLeft0(Tail(s)) ELSE s

\* strconv.Atoi on an unsigned decimal string (no sign characters occur in the
\* modelled names; values stay far below the int range): err = nil and the value
AtoiOk(s) == s # <<>> /\ \A i \in 1..Len(s) : s[i] \in Digits

RECURSIVE AtoiVal(_, _)
AtoiVal(s, acc) == IF s = <<>> THEN acc ELSE AtoiVal(Tail(s), 10 * acc + DigitVal(Head(s)))

ParseFailNum == 999999

extractFileNumber_NoTrimParse(filename) ==
    \* mutant: compares the raw suffix position-wise only on its first digit
    IF SplitCount(filename) >= 2 /\ AtoiOk(SplitLast(filename))
    THEN DigitVal(Head(SplitLast(filename)))
    ELSE ParseFailNum

extractFileNumber(filename) ==
    IF SplitCount(filename) >= 2
    THEN LET trimmed == TrimLeft0(SplitLast(filename))
             lastPart == IF trimmed = <<>> THEN <<"0">> ELSE trimmed
         IN  IF AtoiOk(lastPart) THEN AtoiVal(lastPart, 0) ELSE ParseFailNum
    ELSE ParseFailNum

\* ------------------------------------------------------------------------
\* selectOriginalEvent (analyzer.go:443)
\* ------------------------------------------------------------------------
\* lines 449-457: the scan for the smallest Position, started from ^uint32(0)
RECURSIVE MinPosScan(_, _, _)
MinPosScan(events, minPosition, originalEvent) ==
    IF events = <<>> THEN [minPosition |-> minPosition, originalEvent |-> originalEvent]
    ELSE IF Head(events).Position < minPosition
         THEN MinPosScan(Tail(events), Head(events).Position, Head(events))
         ELSE MinPosScan(Tail(events), minPosition, originalEvent)

\* lines 469-476: among the candidates, the first one with the largest file number
RECURSIVE MaxFileNumScan(_, _, _)
MaxFileNumScan(candidates, maxFileNum, originalEvent) ==
    IF candidates = <<>> THEN originalEvent
    ELSE LET fileNum == extractFileNumber(Head(candidates).Filename)
         IN  IF fileNum > maxFileNum
             THEN MaxFileNumScan(Tail(candidates), fileNum, Head(candidates))
             ELSE MaxFileNumScan(Tail(candidates), maxFileNum, originalEvent)

selectOriginalEvent_FirstWins(events) ==
    \* mutant: keeps the first record of the group
    IF events = <<>> THEN ZeroEvent ELSE events[1]

selectOriginalEvent(events) ==
    IF events = <<>> THEN ZeroEvent
    ELSE LET scan == MinPosScan(events, MaxUint32, ZeroEvent)
             candidates == SelectSeq(events, LAMBDA ev : ev.Position = scan.minPosition)
         IN  IF Len(candidates) > 1
             THEN MaxFileNumScan(candidates, 0, scan.originalEvent)
             ELSE scan.originalEvent

\* ------------------------------------------------------------------------
\* removeDuplicateEvents (analyzer.go:410)
\* ------------------------------------------------------------------------
\* line 415: the map key "%d_%s" of Position and Timestamp
EventKey(ev) == <<ev.Position, ev.Timestamp>>

\* line 416: eventGroups[key], the events of that key in input order
EventGroup(events, key) == SelectSeq(events, LAMBDA ev : EventKey(ev) = key)

EventKeys(events) == {EventKey(events[i]) : i \in 1..Len(events)}

\* lines 422-437 for one iteration order of the map (Go leaves the order open):
\* keyOrder is a sequence of the distinct keys
RECURSIVE DedupLoop(_, _, _, _)
DedupLoop(events, keyOrder, unique, dups) ==
    IF keyOrder = <<>> THEN [uniqueEvents |-> unique, duplicateCount |-> dups]
    ELSE LET group == EventGroup(events, Head(keyOrder))
         IN  IF Len(group) = 1
             THEN DedupLoop(events, Tail(keyOrder), Append(unique, group[1]), dups)
             ELSE DedupLoop(events, Tail(keyOrder),
                            Append(unique, selectOriginalEvent(group)),
                            dups + (Len(group) - 1))

removeDuplicateEvents(events, keyOrder) == DedupLoop(events, keyOrder, <<>>, 0)

\* ------------------------------------------------------------------------
\* Deduplication on its own: every pooled list, every map order, run twice
\* ------------------------------------------------------------------------
\* file names: mysql-bin.000004 and .000012 shortened to b.04 and b.12; b.9 sorts
\* after b.12 as a string and before it as a number; b.00 has file number 0
FileB00 == <<"b", ".", "0", "0">>
FileB04 == <<"b", ".", "0", "4">>
FileB12 == <<"b", ".", "1", "2">>
FileB9 == <<"b", ".", "9">>

DedupFiles == {FileB00, FileB04, FileB12}
DedupKeys == {<<4, 10>>, <<MaxUint32, 10>>, <<MaxUint32, 20>>}
DedupEvents == {SQLEvent(k[1], k[2], f, "QUERY") : k \in DedupKeys, f \in DedupFiles}

\* the parts of the model a specification does not run stay in these states
DedupIdle ==
    /\ dpc = "off" /\ allEvents = <<>> /\ uniqueEvents = <<>> /\ duplicateCount = 0
    /\ uniqueEvents2 = <<>> /\ duplicateCount2 = 0

CfgIdle == cfgStartTime = 0 /\ cfgEndTime = 0 /\ cfgWorkers = 0 /\ cfgVerbose = FALSE

PoolIdle ==
    /\ targetFiles = <<>> /\ fileStreams = <<>> /\ crashed = FALSE
    /\ fileChan = <<>> /\ fileChanClosed = FALSE /\ feedIdx = 0
    /\ wpc = <<>> /\ wFile = <<>>
    /\ eventChan = <<>> /\ errorChan = <<>> /\ eventChanClosed = FALSE /\ errorChanClosed = FALSE
    /\ closerPc = "off" /\ cpc = "off" /\ processedFiles = 0 /\ extracted = <<>>

ExtractIdle ==
    xpc = "off" /\ xFile = <<>> /\ xStream = <<>> /\ xResult = <<>> /\ xDeadline = 0

LocateIdle ==
    /\ lpc = "off" /\ files = <<>> /\ behaviour = <<>> /\ locAlgo = "none" /\ locErr = FALSE
    /\ jobs = <<>> /\ jobsClosed = FALSE /\ jobIdx = 0
    /\ swpc = <<>> /\ swJob = <<>> /\ swRetry = <<>> /\ swErr = <<>>
    /\ results = <<>> /\ resultsClosed = FALSE /\ allResults = <<>>
    /\ probed = <<>> /\ attempts = <<>> /\ sleeps = <<>> /\ conns = {}

ProbeIdle ==
    ppc = "off" /\ pStream = <<>> /\ pSize = 0 /\ pChecked = FALSE /\ pDeadline = 0
    /\ pResult = <<>>

ReportIdle == rpc = "off" /\ perFile = <<>> /\ report = <<>> /\ report2 = <<>>

MainIdle ==
    /\ mpc = "off" /\ argStart = <<>> /\ argEnd = <<>> /\ exitCode = 0 /\ message = ""
    /\ touched = {}

FormatIdle == fpc = "off" /\ fIn = <<>> /\ fOut = <<>>

TallyIdle == jobsTaken = <<>> /\ resultsSent = <<>> /\ resultsReceived = 0

DedupInit ==
    /\ CfgIdle /\ ExtractIdle /\ PoolIdle /\ LocateIdle /\ ProbeIdle /\ ReportIdle /\ MainIdle /\ FormatIdle /\ TallyIdle
    /\ dpc = "in"
    /\ allEvents \in SeqsUpTo(DedupEvents, MaxPooled)
    /\ uniqueEvents = <<>>
    /\ duplicateCount = 0
    /\ uniqueEvents2 = <<>>
    /\ duplicateCount2 = 0

\* Analyze line 263
Deduplicate ==
    /\ dpc = "in"
    /\ \E keyOrder \in Orderings(EventKeys(allEvents)) :
         LET r == removeDuplicateEvents(allEvents, keyOrder)
         IN  /\ uniqueEvents' = r.uniqueEvents
             /\ duplicateCount' = r.duplicateCount
    /\ dpc' = "once"
    /\ UNCHANGED <<allEvents, uniqueEvents2, duplicateCount2>>
    /\ UNCHANGED outsideDedup

\* the deduplicator applied to its own output
DeduplicateAgain ==
    /\ dpc = "once"
    /\ \E keyOrder \in Orderings(EventKeys(uniqueEvents)) :
         LET r == removeDuplicateEvents(uniqueEvents, keyOrder)
         IN  /\ uniqueEvents2' = r.uniqueEvents
             /\ duplicateCount2' = r.duplicateCount
    /\ dpc' = "twice"
    /\ UNCHANGED <<allEvents, uniqueEvents, duplicateCount>>
    /\ UNCHANGED outsideDedup

DedupNext == Deduplicate \/ DeduplicateAgain

SpecDedup == DedupInit /\ [][DedupNext]_vars

\* ------------------------------------------------------------------------
\* Claims about the deduplicator
\* ------------------------------------------------------------------------
\* the numeric sequence suffix of each modelled file name, read off the name
SuffixNumber(fname) ==
    CASE fname = FileB00 -> 0 [] fname = FileB04 -> 4 [] fname = FileB12 -> 12 [] fname = FileB9 -> 9

GroupFiles(events, key) == {ev.Filename : ev \in Range(EventGroup(events, key))}

\* a group of at least two records whose files all have different suffixes
DistinctSuffixGroup(events, key) ==
    LET g == EventGroup(events, key)
    IN  /\ Len(g) >= 2
        /\ \A i, j \in 1..Len(g) : i # j => SuffixNumber(g[i].Filename) # SuffixNumber(g[j].Filename)

Survivors(key) == {i \in 1..Len(uniqueEvents) : EventKey(uniqueEvents[i]) = key}

\* C5: in every group of records with one (Position, Timestamp) whose files have
\* pairwise different numeric suffixes, exactly one record survives and it is the
\* record of the file with the numerically largest suffix, for every input order
\* and every iteration order of the groups.
C5_LargestSuffixSurvives ==
    dpc # "in" =>
        \A key \in EventKeys(allEvents) :
            DistinctSuffixGroup(allEvents, key) =>
                /\ Cardinality(Survivors(key)) = 1
                /\ \A i \in Survivors(key) :
                     /\ uniqueEvents[i] \in Range(EventGroup(allEvents, key))
                     /\ \A f \in GroupFiles(allEvents, key) :
                          SuffixNumber(f) <= SuffixNumber(uniqueEvents[i].Filename)

\* C5 witness: the records of b.04, b.12 and b.00 share a key, in that input
\* order, and the survivor of that key is the record of b.12
C5_Witness ==
    /\ dpc = "once"
    /\ Len(allEvents) = 3
    /\ allEvents[1].Filename = FileB04 /\ allEvents[2].Filename = FileB12
    /\ allEvents[3].Filename = FileB00
    /\ EventKey(allEvents[1]) = EventKey(allEvents[2])
    /\ EventKey(allEvents[2]) = EventKey(allEvents[3])
    /\ uniqueEvents = <<allEvents[2]>>
    /\ duplicateCount = 2

\* C6 (as claimed): running the deduplicator on its own output gives the same set
\* of records and reports zero duplicates removed.
C6_Idempotent ==
    dpc = "twice" =>
        /\ Range(uniqueEvents2) = Range(uniqueEvents)
        /\ duplicateCount2 = 0

\* ------------------------------------------------------------------------
\* The event stream of one file, as the event-stream client delivers it
\* ------------------------------------------------------------------------
\* A delivered event: Header.Timestamp, Header.LogPos and the shape of its payload.
\* "Query"/"SkipQuery": a QueryEvent that skipQuery keeps / drops;
\* "WriteRows", "UpdateRows", "DeleteRows", "OtherRows": a RowsEvent by header type;
\* "Other": any other event.
StreamEvent(ts, pos, kind) == [Timestamp |-> ts, LogPos |-> pos, Kind |-> kind]

\* A stream: whether StartSync succeeds, the events GetEvent returns in order, and
\* how the read after the last of them ends: "err" (end of stream, a read error or
\* the read's deadline) or "panic" (GetEvent panics).
FileStream(startOK, evs, ending) == [startOK |-> startOK, events |-> evs, ending |-> ending]

\* ------------------------------------------------------------------------
\* convertToSQLEvent and handleRowsEvent (unnamed/part_002:203, 235)
\* ------------------------------------------------------------------------
NoEvent == <<>>

handleRowsEvent(ev, filename) ==
    CASE ev.Kind = "WriteRows" -> <<SQLEvent(ev.LogPos, ev.Timestamp, filename, "INSERT")>>
      [] ev.Kind = "UpdateRows" -> <<SQLEvent(ev.LogPos, ev.Timestamp, filename, "UPDATE")>>
      [] ev.Kind = "DeleteRows" -> <<SQLEvent(ev.LogPos, ev.Timestamp, filename, "DELETE")>>
      [] OTHER -> NoEvent

\* the SQLEvent the event becomes, as a sequence of length 0 (nil) or 1
convertToSQLEvent(ev, filename) ==
    CASE ev.Kind = "Query" -> <<SQLEvent(ev.LogPos, ev.Timestamp, filename, "QUERY")>>
      [] ev.Kind = "SkipQuery" -> NoEvent
      [] ev.Kind \in {"WriteRows", "UpdateRows", "DeleteRows", "OtherRows"} -> handleRowsEvent(ev, filename)
      [] OTHER -> NoEvent

\* ------------------------------------------------------------------------
\* ExtractFromSingleFile (unnamed/part_002:79)
\* ------------------------------------------------------------------------
maxEvents == 10000

\* what the call comes to: the events returned, whether it returned an error,
\* how many events it read, whether its syncer was closed when it ended, and
\* whether it ended in an unrecovered panic
ExtractResult(evs, isErr, reads, closed, panicked) ==
    [events |-> evs, err |-> isErr, reads |-> reads, closed |-> closed, crashed |-> panicked]

\* lines 169-180: the time filter on one event: "skip", "stop" or "keep"
TimeFilter_NoLowerBound(eventTime, startTime, endTime) ==
    \* mutant: the test against the window start is missing
    IF eventTime > endTime THEN "stop" ELSE "keep"

TimeFilter_StopInclusive(eventTime, startTime, endTime) ==
    \* mutant: the window end is treated as exclusive
    IF eventTime < startTime THEN "skip"
    ELSE IF eventTime >= endTime THEN "stop" ELSE "keep"

TimeFilter_NeverStops(eventTime, startTime, endTime) ==
    \* mutant: an event after the window is passed over like one before it
    IF eventTime < startTime \/ eventTime > endTime THEN "skip" ELSE "keep"

TimeFilter(eventTime, startTime, endTime) ==
    IF eventTime < startTime THEN "skip"
    ELSE IF eventTime > endTime THEN "stop" ELSE "keep"

\* lines 132-199: the read loop.  i is the index of the next event of the stream,
\* deadlineAt the number of reads after which the 60s context is done.
RECURSIVE ExtractLoop(_, _, _, _, _, _, _, _)
ExtractLoop(file, strm, deadlineAt, startTime, endTime, i, eventCount, events) ==
    IF ~(eventCount < maxEvents) THEN ExtractResult(events, FALSE, i - 1, TRUE, FALSE)
    ELSE IF i - 1 >= deadlineAt THEN ExtractResult(events, FALSE, i - 1, TRUE, FALSE)
    ELSE IF i > Len(strm.events)
         THEN IF strm.ending = "panic"
              \* lines 143-151: the recover assigns the function's outer err and the
              \* literal returns (nil, nil); line 166 then dereferences the nil event
              \* (the deferred safeSyncerClose of line 116 still runs)
              THEN ExtractResult(events, FALSE, i - 1, TRUE, TRUE)
              ELSE ExtractResult(events, FALSE, i - 1, TRUE, FALSE)
    ELSE LET ev == strm.events[i]
             verdict == TimeFilter(ev.Timestamp, startTime, endTime)
         IN  CASE verdict = "skip" ->
                    ExtractLoop(file, strm, deadlineAt, startTime, endTime, i + 1, eventCount, events)
               [] verdict = "stop" -> ExtractResult(events, FALSE, i, TRUE, FALSE)
               [] OTHER ->
                    ExtractLoop(file, strm, deadlineAt, startTime, endTime, i + 1, eventCount + 1,
                                events \o convertToSQLEvent(ev, file))

ExtractFromSingleFile(file, strm, deadlineAt, startTime, endTime) ==
    IF ~strm.startOK
    THEN ExtractResult(<<>>, TRUE, 0, TRUE, FALSE)      \* lines 119-122, deferred close
    ELSE ExtractLoop(file, strm, deadlineAt, startTime, endTime, 1, 0, <<>>)

\* ------------------------------------------------------------------------
\* Extraction of one file on its own: every stream, window and deadline
\* ------------------------------------------------------------------------
ExtractTimes == 1..4
ExtractWindows == {<<2, 2>>, <<2, 3>>}
ExtractKinds == {"Query", "SkipQuery", "UpdateRows", "Other"}

\* the streams of at most n events; LogPos grows along the stream
StreamsUpTo(n) ==
    {FileStream(ok, [i \in 1..Len(tk) |-> StreamEvent(tk[i][1], 4 * i, tk[i][2])], ending) :
        ok \in BOOLEAN, tk \in SeqsUpTo(ExtractTimes \X ExtractKinds, n), ending \in {"err", "panic"}}

ExtractInit ==
    /\ DedupIdle /\ PoolIdle /\ LocateIdle /\ ProbeIdle /\ ReportIdle /\ MainIdle /\ FormatIdle /\ TallyIdle
    /\ \E w \in ExtractWindows : cfgStartTime = w[1] /\ cfgEndTime = w[2]
    /\ cfgWorkers = 0 /\ cfgVerbose = FALSE
    /\ xpc = "ready"
    /\ xFile = FileB04
    /\ xStream \in StreamsUpTo(MaxStream)
    /\ xResult = <<>>
    /\ xDeadline = 0

ExtractCall ==
    /\ xpc = "ready"
    /\ \E deadlineAt \in 0..(Len(xStream.events) + 1) :
         LET r == ExtractFromSingleFile(xFile, xStream, deadlineAt, cfgStartTime, cfgEndTime)
         IN  /\ xResult' = r
             /\ xDeadline' = deadlineAt
             /\ xpc' = IF r.crashed THEN "crashed" ELSE "returned"
    /\ UNCHANGED <<xFile, xStream, cfgVars>>
    /\ UNCHANGED outsideExtract

ExtractNext == ExtractCall

SpecExtract == ExtractInit /\ [][ExtractNext]_vars

ClampWorkers_Single(workers, nFiles) == 1

ClampWorkers_NoFloor(workers, nFiles) ==
    IF workers > nFiles THEN nFiles ELSE workers

ClampWorkers(workers, nFiles) ==
    LET a == IF workers > nFiles THEN nFiles ELSE workers
    IN  IF a < 1 THEN 1 ELSE a

NoResult == <<>>

\* wg.Wait() returns once every started worker has run its deferred wg.Done()
wgWait_NoDone(pcs) == DOMAIN pcs = {}

wgWait_FirstDone(pcs) == \E w \in DOMAIN pcs : pcs[w] = "exited"

wgWait(pcs) == \A w \in DOMAIN pcs : pcs[w] = "exited"

\* a receive of a Go channel: possible when a value is buffered or the channel is closed
CanReceive(chan, closed) == chan # <<>> \/ closed

\* line 168, `for file := range fileChan`: a worker takes the next file
WorkerTakeFile(w) ==
    /\ ~crashed /\ cpc \in {"collect", "pooled"}
    /\ wpc[w] = "range"
    /\ fileChan # <<>>
    /\ wFile' = [wFile EXCEPT ![w] = Head(fileChan)]
    /\ fileChan' = Tail(fileChan)
    /\ wpc' = [wpc EXCEPT ![w] = "extract"]
    /\ UNCHANGED <<targetFiles, fileStreams, crashed, fileChanClosed, feedIdx, eventChan, errorChan,
                   eventChanClosed, errorChanClosed, closerPc, cpc, processedFiles, extracted>>
    /\ UNCHANGED <<allEvents, cfgVars>> /\ UNCHANGED outsidePool

\* line 168 when fileChan is closed and drained, then the deferred wg.Done (167)
WorkerExit(w) ==
    /\ ~crashed /\ cpc \in {"collect", "pooled"}
    /\ wpc[w] = "range"
    /\ fileChan = <<>> /\ fileChanClosed
    /\ wpc' = [wpc EXCEPT ![w] = "exited"]
    /\ UNCHANGED <<targetFiles, fileStreams, crashed, fileChan, fileChanClosed, feedIdx, wFile,
                   eventChan, errorChan, eventChanClosed, errorChanClosed, closerPc, cpc,
                   processedFiles, extracted>>
    /\ UNCHANGED <<allEvents, cfgVars>> /\ UNCHANGED outsidePool

\* lines 169-174: the extraction of the held file and the send of its outcome
WorkerExtract(w) ==
    /\ ~crashed /\ cpc \in {"collect", "pooled"}
    /\ wpc[w] = "extract"
    /\ LET f == wFile[w]
       IN  \E deadlineAt \in 0..(Len(fileStreams[f].events) + 1) :
             LET r == ExtractFromSingleFile(f, fileStreams[f], deadlineAt, cfgStartTime, cfgEndTime)
             IN  /\ extracted' = [extracted EXCEPT ![f] = r]
                 /\ IF r.crashed
                    THEN /\ crashed' = TRUE
                         /\ UNCHANGED <<eventChan, errorChan, wpc>>
                    ELSE /\ UNCHANGED crashed
                         /\ wpc' = [wpc EXCEPT ![w] = "range"]
                         /\ IF r.err
                            THEN /\ Len(errorChan) < Len(targetFiles)
                                 /\ errorChan' = Append(errorChan, f)
                                 /\ UNCHANGED eventChan
                            ELSE /\ Len(eventChan) < Len(targetFiles)
                                 /\ eventChan' = Append(eventChan, r.events)
                                 /\ UNCHANGED errorChan
    /\ UNCHANGED <<targetFiles, fileStreams, fileChan, fileChanClosed, feedIdx, wFile,
                   eventChanClosed, errorChanClosed, closerPc, cpc, processedFiles>>
    /\ UNCHANGED <<allEvents, cfgVars>> /\ UNCHANGED outsidePool

\* lines 180-185: the feeding goroutine sends one file
FeederSend ==
    /\ ~crashed /\ cpc \in {"collect", "pooled"}
    /\ ~cfgVerbose            \* the verbose branch starts no goroutine
    /\ feedIdx <= Len(targetFiles)
    /\ Len(fileChan) < Len(targetFiles)
    /\ fileChan' = Append(fileChan, targetFiles[feedIdx])
    /\ feedIdx' = feedIdx + 1
    /\ UNCHANGED <<targetFiles, fileStreams, crashed, fileChanClosed, wpc, wFile, eventChan, errorChan,
                   eventChanClosed, errorChanClosed, closerPc, cpc, processedFiles, extracted>>
    /\ UNCHANGED <<allEvents, cfgVars>> /\ UNCHANGED outsidePool

\* line 181: the deferred close(fileChan)
FeederClose ==
    /\ ~crashed /\ cpc \in {"collect", "pooled"}
    /\ ~cfgVerbose            \* the verbose branch starts no goroutine
    /\ feedIdx = Len(targetFiles) + 1
    /\ ~fileChanClosed
    /\ fileChanClosed' = TRUE
    /\ UNCHANGED <<targetFiles, fileStreams, crashed, fileChan, feedIdx, wpc, wFile, eventChan, errorChan,
                   eventChanClosed, errorChanClosed, closerPc, cpc, processedFiles, extracted>>
    /\ UNCHANGED <<allEvents, cfgVars>> /\ UNCHANGED outsidePool

\* lines 189-190: wg.Wait() returns and eventChan is closed
CloserCloseEvents ==
    /\ ~crashed /\ cpc \in {"collect", "pooled"}
    /\ closerPc = "wait"
    /\ wgWait(wpc)
    /\ eventChanClosed' = TRUE
    /\ closerPc' = "closeErr"
    /\ UNCHANGED <<targetFiles, fileStreams, crashed, fileChan, fileChanClosed, feedIdx, wpc, wFile,
                   eventChan, errorChan, errorChanClosed, cpc, processedFiles, extracted>>
    /\ UNCHANGED <<allEvents, cfgVars>> /\ UNCHANGED outsidePool

\* line 191: errorChan is closed
CloserCloseErrors ==
    /\ ~crashed /\ cpc \in {"collect", "pooled"}
    /\ closerPc = "closeErr"
    /\ errorChanClosed' = TRUE
    /\ closerPc' = "done"
    /\ UNCHANGED <<targetFiles, fileStreams, crashed, fileChan, fileChanClosed, feedIdx, wpc, wFile,
                   eventChan, errorChan, eventChanClosed, cpc, processedFiles, extracted>>
    /\ UNCHANGED <<allEvents, cfgVars>> /\ UNCHANGED outsidePool

\* lines 196-206: the select takes its eventChan case (a closed, drained channel
\* delivers the zero value, a nil list)
CollectEvents ==
    /\ ~crashed /\ cpc = "collect"
    /\ processedFiles < Len(targetFiles)
    /\ CanReceive(eventChan, eventChanClosed)
    /\ IF eventChan # <<>>
       THEN /\ allEvents' = allEvents \o Head(eventChan)
            /\ eventChan' = Tail(eventChan)
       ELSE UNCHANGED <<allEvents, eventChan>>
    /\ processedFiles' = processedFiles + 1
    /\ UNCHANGED <<targetFiles, fileStreams, crashed, fileChan, fileChanClosed, feedIdx, wpc, wFile,
                   errorChan, eventChanClosed, errorChanClosed, closerPc, cpc, extracted>>
    /\ UNCHANGED cfgVars /\ UNCHANGED outsidePool

\* lines 207-213: the select takes its errorChan case
CollectError ==
    /\ ~crashed /\ cpc = "collect"
    /\ processedFiles < Len(targetFiles)
    /\ CanReceive(errorChan, errorChanClosed)
    /\ errorChan' = IF errorChan # <<>> THEN Tail(errorChan) ELSE errorChan
    /\ processedFiles' = processedFiles + 1
    /\ UNCHANGED <<targetFiles, fileStreams, crashed, fileChan, fileChanClosed, feedIdx, wpc, wFile,
                   eventChan, eventChanClosed, errorChanClosed, closerPc, cpc, extracted>>
    /\ UNCHANGED <<allEvents, cfgVars>> /\ UNCHANGED outsidePool

\* line 196: the loop condition fails and Analyze goes on with allEvents
CollectDone ==
    /\ ~crashed /\ cpc = "collect"
    /\ processedFiles = Len(targetFiles)
    /\ cpc' = "pooled"
    /\ UNCHANGED <<targetFiles, fileStreams, crashed, fileChan, fileChanClosed, feedIdx, wpc, wFile,
                   eventChan, errorChan, eventChanClosed, errorChanClosed, closerPc,
                   processedFiles, extracted>>
    /\ UNCHANGED <<allEvents, cfgVars>> /\ UNCHANGED outsidePool

\* lines 218-233: verbose mode handles the files one after the other
VerboseExtract ==
    /\ ~crashed /\ cpc = "verbose"
    /\ processedFiles < Len(targetFiles)
    /\ LET f == targetFiles[processedFiles + 1]
       IN  \E deadlineAt \in 0..(Len(fileStreams[f].events) + 1) :
             LET r == ExtractFromSingleFile(f, fileStreams[f], deadlineAt, cfgStartTime, cfgEndTime)
             IN  /\ extracted' = [extracted EXCEPT ![f] = r]
                 /\ crashed' = r.crashed
                 /\ allEvents' = IF r.crashed \/ r.err THEN allEvents ELSE allEvents \o r.events
                 /\ processedFiles' = IF r.crashed THEN processedFiles ELSE processedFiles + 1
    /\ UNCHANGED <<targetFiles, fileStreams, fileChan, fileChanClosed, feedIdx, wpc, wFile,
                   eventChan, errorChan, eventChanClosed, errorChanClosed, closerPc, cpc>>
    /\ UNCHANGED cfgVars /\ UNCHANGED outsidePool

VerboseDone ==
    /\ ~crashed /\ cpc = "verbose"
    /\ processedFiles = Len(targetFiles)
    /\ cpc' = "pooled"
    /\ UNCHANGED <<targetFiles, fileStreams, crashed, fileChan, fileChanClosed, feedIdx, wpc, wFile,
                   eventChan, errorChan, eventChanClosed, errorChanClosed, closerPc,
                   processedFiles, extracted>>
    /\ UNCHANGED <<allEvents, cfgVars>> /\ UNCHANGED outsidePool

\* ---- the extraction phase on its own: every target list, stream and schedule
PoolWindow == <<2, 3>>
PoolNames == <<FileB04, FileB12, FileB9>>      \* ascending as strings

\* a file whose stream cannot start, an empty file, a file with one event in the
\* window, and one whose stream panics after that event
PoolStreams ==
    {FileStream(FALSE, <<>>, "err"),
     FileStream(TRUE, <<>>, "err"),
     FileStream(TRUE, <<StreamEvent(2, 8, "Query")>>, "err"),
     FileStream(TRUE, <<StreamEvent(3, 8, "UpdateRows")>>, "panic")}

PoolInit ==
    /\ ExtractIdle /\ LocateIdle /\ ProbeIdle /\ ReportIdle /\ MainIdle /\ FormatIdle /\ TallyIdle
    /\ dpc = "off" /\ uniqueEvents = <<>> /\ duplicateCount = 0
    /\ uniqueEvents2 = <<>> /\ duplicateCount2 = 0
    /\ allEvents = <<>>
    /\ cfgStartTime = PoolWindow[1] /\ cfgEndTime = PoolWindow[2]
    /\ cfgWorkers \in 0..MaxWorkers
    /\ cfgVerbose \in BOOLEAN
    /\ \E k \in 1..MaxTargets :
         /\ targetFiles = SubSeq(PoolNames, 1, k)
         /\ fileStreams \in [Range(SubSeq(PoolNames, 1, k)) -> PoolStreams]
         /\ extracted = [f \in Range(SubSeq(PoolNames, 1, k)) |-> NoResult]
         /\ wpc = IF cfgVerbose THEN <<>> ELSE [w \in 1..ClampWorkers(cfgWorkers, k) |-> "range"]
         /\ wFile = IF cfgVerbose THEN <<>> ELSE [w \in 1..ClampWorkers(cfgWorkers, k) |-> <<>>]
    /\ crashed = FALSE
    /\ fileChan = <<>> /\ fileChanClosed = FALSE
    /\ feedIdx = 1
    /\ eventChan = <<>> /\ errorChan = <<>>
    /\ eventChanClosed = FALSE /\ errorChanClosed = FALSE
    /\ closerPc = IF cfgVerbose THEN "off" ELSE "wait"
    /\ cpc = IF cfgVerbose THEN "verbose" ELSE "collect"
    /\ processedFiles = 0

PoolNext ==
    \/ \E w \in DOMAIN wpc : WorkerTakeFile(w)
    \/ \E w \in DOMAIN wpc : WorkerExit(w)
    \/ \E w \in DOMAIN wpc : WorkerExtract(w)
    \/ FeederSend
    \/ FeederClose
    \/ CloserCloseEvents
    \/ CloserCloseErrors
    \/ CollectEvents
    \/ CollectError
    \/ CollectDone
    \/ VerboseExtract
    \/ VerboseDone

SpecPool == PoolInit /\ [][PoolNext]_vars

\* the events of file f in the pooled list, in order
PooledOf(f) == SelectSeq(allEvents, LAMBDA ev : ev.Filename = f)

\* C2 (as claimed): when the collector of the parallel phase has finished, the
\* pooled list holds the events of every successfully extracted target file exactly
\* once, and every target file had produced its one outcome.
C2_PooledExactlyOnce ==
    (cpc = "pooled" /\ ~cfgVerbose) =>
        \A f \in Range(targetFiles) :
            /\ extracted[f] # NoResult
            /\ ~extracted[f].err => PooledOf(f) = extracted[f].events

\* ------------------------------------------------------------------------
\* The locator: which files may hold events of the window
\* (efficient_finder.go, concurrent_finder.go)
\* ------------------------------------------------------------------------
\* Go compares file names byte by byte
CharCode(c) ==
    CASE c = "." -> 46
      [] c \in Digits -> 48 + DigitVal(c)
      [] c = "b" -> 98
      [] OTHER -> 127

RECURSIVE NameLess(_, _)
NameLess(a, b) ==
    IF b = <<>> THEN FALSE
    ELSE IF a = <<>> THEN TRUE
    ELSE IF Head(a) = Head(b) THEN NameLess(Tail(a), Tail(b))
    ELSE CharCode(Head(a)) < CharCode(Head(b))

\* sort.Slice by name: the arrangement in which no name is less than an earlier
\* one (one arrangement only, the names of a catalog being distinct)
SortByName(fs) ==
    LET perm == CHOOSE p \in Orderings(1..Len(fs)) :
                    \A i, j \in 1..Len(fs) : i < j => ~NameLess(fs[p[j]], fs[p[i]])
    IN  [i \in 1..Len(fs) |-> fs[perm[i]]]

\* a file's estimated range; ZeroTime is an absent bound
FileTimeRange(start, end) == [StartTime |-> start, EndTime |-> end]

bufferTime == 6 * 3600
wideSpan == 24 * 3600

isFileInTimeRange_NoLowerCut(fileRange, StartTime, EndTime) ==
    IF fileRange.StartTime = ZeroTime /\ fileRange.EndTime = ZeroTime THEN TRUE
    ELSE IF fileRange.EndTime - fileRange.StartTime > wideSpan THEN TRUE
    ELSE IF fileRange.StartTime # ZeroTime /\ fileRange.StartTime > EndTime + bufferTime
         THEN FALSE
    ELSE TRUE

isFileInTimeRange_UnknownExcluded(fileRange, StartTime, EndTime) ==
    IF fileRange.StartTime = ZeroTime /\ fileRange.EndTime = ZeroTime THEN FALSE
    ELSE IF fileRange.EndTime - fileRange.StartTime > wideSpan THEN TRUE
    ELSE IF fileRange.EndTime # ZeroTime /\ fileRange.EndTime < StartTime - bufferTime
         THEN FALSE
    ELSE IF fileRange.StartTime # ZeroTime /\ fileRange.StartTime > EndTime + bufferTime
         THEN FALSE
    ELSE TRUE

isFileInTimeRange_ExclusiveEdge(fileRange, StartTime, EndTime) ==
    IF fileRange.StartTime = ZeroTime /\ fileRange.EndTime = ZeroTime THEN TRUE
    ELSE IF fileRange.EndTime - fileRange.StartTime > wideSpan THEN TRUE
    ELSE IF fileRange.EndTime # ZeroTime /\ fileRange.EndTime <= StartTime - bufferTime
         THEN FALSE
    ELSE IF fileRange.StartTime # ZeroTime /\ fileRange.StartTime > EndTime + bufferTime
         THEN FALSE
    ELSE TRUE

isFileInTimeRange(fileRange, StartTime, EndTime) ==
    IF fileRange.StartTime = ZeroTime /\ fileRange.EndTime = ZeroTime THEN TRUE
    ELSE IF fileRange.EndTime - fileRange.StartTime > wideSpan THEN TRUE
    ELSE IF fileRange.EndTime # ZeroTime /\ fileRange.EndTime < StartTime - bufferTime
         THEN FALSE
    ELSE IF fileRange.StartTime # ZeroTime /\ fileRange.StartTime > EndTime + bufferTime
         THEN FALSE
    ELSE TRUE

\* the forward early stop of the sequential scan
EarlyStop_Never(timeRange, EndTime) == FALSE

EarlyStop(timeRange, EndTime) ==
    timeRange.StartTime # ZeroTime /\ timeRange.StartTime > EndTime

\* how the probes of one file go: the first `fails` calls cannot start the stream,
\* every later call returns `range`
ProbeBehaviour(fails, range) == [fails |-> fails, range |-> range]

\* getFileTimeRangeQuick as the locator sees it: the call number `made` (0 first)
ProbeOutcome(beh, made) ==
    IF made < beh.fails
    THEN [err |-> TRUE, timeRange |-> FileTimeRange(ZeroTime, ZeroTime)]
    ELSE [err |-> FALSE, timeRange |-> beh.range]

Syncer(owner, file) == [owner |-> owner, file |-> file, serverId |-> 100 + owner]

FileSearchJob(file, index) == [File |-> file, Index |-> index]

FileSearchResult_NoError(file, timeRange, index, isErr) ==
    [File |-> file, TimeRange |-> timeRange, Index |-> index, Error |-> FALSE]

FileSearchResult(file, timeRange, index, isErr) ==
    [File |-> file, TimeRange |-> timeRange, Index |-> index, Error |-> isErr]

ResultLess(a, b) == NameLess(a.File, b.File)

\* sort.Slice of the collected results by file name
SortResults(rs) ==
    LET perm == CHOOSE p \in Orderings(1..Len(rs)) :
                    \A i, j \in 1..Len(rs) : i < j => ~ResultLess(rs[p[j]], rs[p[i]])
    IN  [i \in 1..Len(rs) |-> rs[perm[i]]]

\* processSearchResults after the collecting loop: sort by name, then filter
processSearchResults_NoSort(collected, StartTime, EndTime) ==
    LET kept == SelectSeq(collected,
                          LAMBDA r : isFileInTimeRange(r.TimeRange, StartTime, EndTime))
    IN  [i \in 1..Len(kept) |-> kept[i].File]

processSearchResults(collected, StartTime, EndTime) ==
    LET sorted == SortResults(collected)
        kept == SelectSeq(sorted,
                          LAMBDA r : isFileInTimeRange(r.TimeRange, StartTime, EndTime))
    IN  [i \in 1..Len(kept) |-> kept[i].File]

\* one pass of the loop body of FindTargetFilesEfficient over file number i + 1
ScanState(i, targets, visited, open, stopped) ==
    [i |-> i, targets |-> targets, visited |-> visited, open |-> open, stopped |-> stopped]

EfficientVisit(st, sorted, beh, StartTime, EndTime) ==
    LET file == sorted[st.i + 1]
        out == ProbeOutcome(beh[file], 0)
    IN  IF out.err
        THEN ScanState(st.i + 1, st.targets, Append(st.visited, file), st.open, FALSE)
        ELSE ScanState(st.i + 1,
                       IF isFileInTimeRange(out.timeRange, StartTime, EndTime)
                       THEN Append(st.targets, file) ELSE st.targets,
                       Append(st.visited, file),
                       st.open \cup {Syncer(0, file)},
                       EarlyStop(out.timeRange, EndTime))

RECURSIVE EfficientLoop(_, _, _, _, _)
EfficientLoop(st, sorted, beh, StartTime, EndTime) ==
    IF st.stopped \/ st.i >= Len(sorted) THEN st
    ELSE EfficientLoop(EfficientVisit(st, sorted, beh, StartTime, EndTime),
                       sorted, beh, StartTime, EndTime)

\* the whole sequential scan of a non-empty list
FindTargetFilesEfficient(fs, beh, StartTime, EndTime) ==
    EfficientLoop(ScanState(0, <<>>, <<>>, {}, FALSE), SortByName(fs), beh, StartTime, EndTime)

maxRetries == 10

\* where the retry loop of searchWorkerDynamic goes after an attempt
AfterAttempt_NoBreak(isErr, retry) ==
    IF retry < maxRetries - 1 THEN "sleep" ELSE "send"

AfterAttempt(isErr, retry) ==
    IF ~isErr THEN "send"
    ELSE IF retry < maxRetries - 1 THEN "sleep"
    ELSE "send"

\* ---- entering the locator
StartEfficient ==
    IF Len(files) = 0
    THEN /\ lpc' = "done" /\ locErr' = TRUE /\ locAlgo' = "efficient"
         /\ UNCHANGED <<files, jobIdx>>
    ELSE /\ lpc' = "running" /\ locErr' = FALSE /\ locAlgo' = "efficient"
         /\ files' = SortByName(files)
         /\ jobIdx' = 0

StartConcurrent ==
    IF Len(files) = 0
    THEN /\ lpc' = "done" /\ locErr' = TRUE /\ locAlgo' = "concurrent"
         /\ UNCHANGED <<files, jobIdx, swpc, swJob, swRetry, swErr>>
    ELSE LET workerCount == ClampWorkers(cfgWorkers, Len(files))
         IN  /\ lpc' = "running" /\ locErr' = FALSE /\ locAlgo' = "concurrent"
             /\ files' = SortByName(files)
             /\ jobIdx' = 0
             /\ swpc' = [w \in 1..workerCount |-> "range"]
             /\ swJob' = [w \in 1..workerCount |-> <<>>]
             /\ swRetry' = [w \in 1..workerCount |-> 0]
             /\ swErr' = [w \in 1..workerCount |-> FALSE]

\* line 205: the test that sends FindTargetFilesParallel to the sequential scan
SequentialMode_ExactlyOne(workers) == workers = 1

SequentialMode(workers) == workers <= 1

\* FindTargetFilesParallel: the entry Analyze uses
CallFindTargetFilesParallel ==
    /\ lpc = "start"
    /\ IF SequentialMode(cfgWorkers)
       THEN StartEfficient /\ UNCHANGED <<swpc, swJob, swRetry, swErr>>
       ELSE StartConcurrent
    /\ UNCHANGED <<behaviour, jobs, jobsClosed, results, resultsClosed, allResults,
                   probed, attempts, sleeps, conns, targetFiles>>
    /\ UNCHANGED outsideLocate

CallFindTargetFilesEfficient ==
    /\ lpc = "start"
    /\ StartEfficient
    /\ UNCHANGED <<behaviour, jobs, jobsClosed, swpc, swJob, swRetry, swErr, results,
                   resultsClosed, allResults, probed, attempts, sleeps, conns, targetFiles>>
    /\ UNCHANGED outsideLocate

CallFindTargetFilesConcurrent ==
    /\ lpc = "start"
    /\ StartConcurrent
    /\ UNCHANGED <<behaviour, jobs, jobsClosed, results, resultsClosed, allResults,
                   probed, attempts, sleeps, conns, targetFiles>>
    /\ UNCHANGED outsideLocate

\* ---- the sequential scan, one file per step
EfficientProbe ==
    /\ lpc = "running" /\ locAlgo = "efficient"
    /\ jobIdx < Len(files)
    /\ LET st == EfficientVisit(ScanState(jobIdx, targetFiles, probed, conns, FALSE),
                                files, behaviour, cfgStartTime, cfgEndTime)
           file == files[jobIdx + 1]
       IN  /\ jobIdx' = st.i
           /\ targetFiles' = st.targets
           /\ probed' = st.visited
           /\ conns' = st.open
           /\ attempts' = [attempts EXCEPT ![file] = @ + 1]
           /\ lpc' = IF st.stopped THEN "done" ELSE "running"
    /\ UNCHANGED <<files, behaviour, locAlgo, locErr, jobs, jobsClosed, swpc, swJob, swRetry,
                   swErr, results, resultsClosed, allResults, sleeps>>
    /\ UNCHANGED outsideLocate

EfficientReturn ==
    /\ lpc = "running" /\ locAlgo = "efficient"
    /\ jobIdx = Len(files)
    /\ lpc' = "done"
    /\ UNCHANGED <<files, behaviour, locAlgo, locErr, jobs, jobsClosed, jobIdx, swpc, swJob,
                   swRetry, swErr, results, resultsClosed, allResults, probed, attempts,
                   sleeps, conns, targetFiles>>
    /\ UNCHANGED outsideLocate

\* ---- the concurrent search
Tally(count, f) ==
    IF f \in DOMAIN count THEN [count EXCEPT ![f] = @ + 1] ELSE count @@ (f :> 1)

TallyOf(count, f) == IF f \in DOMAIN count THEN count[f] ELSE 0

searching == lpc = "running" /\ locAlgo = "concurrent"

JobsSend ==
    /\ searching /\ ~jobsClosed
    /\ jobIdx < Len(files)
    /\ Len(jobs) < Len(files)
    /\ jobs' = Append(jobs, FileSearchJob(files[jobIdx + 1], jobIdx))
    /\ jobIdx' = jobIdx + 1
    /\ UNCHANGED <<lpc, files, behaviour, locAlgo, locErr, jobsClosed, swpc, swJob, swRetry,
                   swErr, results, resultsClosed, allResults, probed, attempts, sleeps,
                   conns, targetFiles>>
    /\ UNCHANGED outsideLocate

JobsClose ==
    /\ searching /\ ~jobsClosed
    /\ jobIdx = Len(files)
    /\ jobsClosed' = TRUE
    /\ UNCHANGED <<lpc, files, behaviour, locAlgo, locErr, jobs, jobIdx, swpc, swJob, swRetry,
                   swErr, results, resultsClosed, allResults, probed, attempts, sleeps,
                   conns, targetFiles>>
    /\ UNCHANGED outsideLocate

SearchWorkerTake(w) ==
    /\ searching /\ swpc[w] = "range"
    /\ jobs # <<>>
    /\ swJob' = [swJob EXCEPT ![w] = Head(jobs)]
    /\ jobs' = Tail(jobs)
    /\ swRetry' = [swRetry EXCEPT ![w] = 0]
    /\ swErr' = [swErr EXCEPT ![w] = FALSE]
    /\ swpc' = [swpc EXCEPT ![w] = "attempt"]
    /\ UNCHANGED <<lpc, files, behaviour, locAlgo, locErr, jobsClosed, jobIdx, results,
                   resultsClosed, allResults, probed, attempts, sleeps, conns, targetFiles>>
    /\ jobsTaken' = Tally(jobsTaken, Head(jobs).File)
    /\ UNCHANGED <<resultsSent, resultsReceived>>
    /\ UNCHANGED outsideSearch

SearchWorkerExit(w) ==
    /\ searching /\ swpc[w] = "range"
    /\ jobs = <<>> /\ jobsClosed
    /\ swpc' = [swpc EXCEPT ![w] = "exited"]
    /\ UNCHANGED <<lpc, files, behaviour, locAlgo, locErr, jobs, jobsClosed, jobIdx, swJob,
                   swRetry, swErr, results, resultsClosed, allResults, probed, attempts,
                   sleeps, conns, targetFiles>>
    /\ UNCHANGED outsideLocate

\* one call of getFileTimeRangeQuick; when the retry loop ends with it the result
\* is sent at once (the result channel has a slot for every file, so the send
\* never waits)
SearchWorkerAttempt(w) ==
    /\ searching /\ swpc[w] = "attempt"
    /\ LET file == swJob[w].File
           out == ProbeOutcome(behaviour[file], attempts[file])
           after == AfterAttempt(out.err, swRetry[w])
       IN  /\ attempts' = [attempts EXCEPT ![file] = @ + 1]
           /\ conns' = IF out.err THEN conns ELSE conns \cup {Syncer(w, file)}
           /\ swErr' = [swErr EXCEPT ![w] = out.err]
           /\ IF after = "send"
              THEN /\ results' = Append(results,
                                        FileSearchResult(file, out.timeRange, swJob[w].Index,
                                                         out.err))
                   /\ swpc' = [swpc EXCEPT ![w] = "range"]
              ELSE /\ results' = results
                   /\ swpc' = [swpc EXCEPT ![w] = after]
    /\ UNCHANGED <<lpc, files, behaviour, locAlgo, locErr, jobs, jobsClosed, jobIdx, swJob,
                   swRetry, resultsClosed, allResults, probed, sleeps, targetFiles>>
    /\ resultsSent' = IF AfterAttempt(ProbeOutcome(behaviour[swJob[w].File],
                                                    attempts[swJob[w].File]).err,
                                       swRetry[w]) = "send"
                      THEN Tally(resultsSent, swJob[w].File)
                      ELSE resultsSent
    /\ UNCHANGED <<jobsTaken, resultsReceived>>
    /\ UNCHANGED outsideSearch

SearchWorkerSleep(w) ==
    /\ searching /\ swpc[w] = "sleep"
    /\ sleeps' = [sleeps EXCEPT ![swJob[w].File] = @ + 1]
    /\ swRetry' = [swRetry EXCEPT ![w] = @ + 1]
    /\ swpc' = [swpc EXCEPT ![w] = "attempt"]
    /\ UNCHANGED <<lpc, files, behaviour, locAlgo, locErr, jobs, jobsClosed, jobIdx, swJob,
                   swErr, results, resultsClosed, allResults, probed, attempts, conns,
                   targetFiles>>
    /\ UNCHANGED outsideLocate

ResultsClose ==
    /\ searching /\ ~resultsClosed
    /\ wgWait(swpc)
    /\ resultsClosed' = TRUE
    /\ UNCHANGED <<lpc, files, behaviour, locAlgo, locErr, jobs, jobsClosed, jobIdx, swpc,
                   swJob, swRetry, swErr, results, allResults, probed, attempts, sleeps,
                   conns, targetFiles>>
    /\ UNCHANGED outsideLocate

CollectResult ==
    /\ searching
    /\ results # <<>>
    /\ allResults' = IF Head(results).Error THEN allResults
                     ELSE Append(allResults, Head(results))
    /\ results' = Tail(results)
    /\ UNCHANGED <<lpc, files, behaviour, locAlgo, locErr, jobs, jobsClosed, jobIdx, swpc,
                   swJob, swRetry, swErr, resultsClosed, probed, attempts, sleeps, conns,
                   targetFiles>>
    /\ resultsReceived' = resultsReceived + 1
    /\ UNCHANGED <<jobsTaken, resultsSent>>
    /\ UNCHANGED outsideSearch

ProcessResults ==
    /\ searching
    /\ results = <<>> /\ resultsClosed
    /\ targetFiles' = processSearchResults(allResults, cfgStartTime, cfgEndTime)
    /\ lpc' = "done"
    /\ UNCHANGED <<files, behaviour, locAlgo, locErr, jobs, jobsClosed, jobIdx, swpc, swJob,
                   swRetry, swErr, results, resultsClosed, allResults, probed, attempts,
                   sleeps, conns>>
    /\ UNCHANGED outsideLocate

\* ---- Analyze after the locator returned: fail, stop with nothing to do, or set
\* up the extraction of exactly the returned files
LocStream == FileStream(TRUE, <<>>, "err")

\* what the server does when a selected file is extracted: the stream does not
\* start, or it starts and ends
HandedStreams == {FileStream(FALSE, <<>>, "err"), LocStream}

AnalyzeAfterLocate ==
    /\ lpc = "done" /\ cpc = "off"
    /\ lpc' = "handed"
    /\ IF locErr
       THEN /\ cpc' = "failed"
            /\ UNCHANGED <<fileStreams, extracted, wpc, wFile, closerPc, feedIdx>>
       ELSE IF Len(targetFiles) = 0
       THEN /\ cpc' = "nofiles"
            /\ UNCHANGED <<fileStreams, extracted, wpc, wFile, closerPc, feedIdx>>
       ELSE /\ cpc' = IF cfgVerbose THEN "verbose" ELSE "collect"
            /\ fileStreams' \in [Range(targetFiles) -> HandedStreams]
            /\ extracted' = [f \in Range(targetFiles) |-> NoResult]
            /\ wpc' = IF cfgVerbose THEN <<>>
                      ELSE [w \in 1..ClampWorkers(cfgWorkers, Len(targetFiles)) |-> "range"]
            /\ wFile' = IF cfgVerbose THEN <<>>
                        ELSE [w \in 1..ClampWorkers(cfgWorkers, Len(targetFiles)) |-> <<>>]
            /\ closerPc' = IF cfgVerbose THEN "off" ELSE "wait"
            /\ feedIdx' = 1
    /\ UNCHANGED <<files, behaviour, locAlgo, locErr, jobs, jobsClosed, jobIdx, swpc, swJob,
                   swRetry, swErr, results, resultsClosed, allResults, probed, attempts,
                   sleeps, conns, targetFiles>>
    /\ UNCHANGED <<crashed, fileChan, fileChanClosed, eventChan, errorChan, eventChanClosed,
                   errorChanClosed, processedFiles>>
    /\ UNCHANGED <<dedupVars, cfgVars, extractVars, probeVars, reportVars, mainVars, formatVars, tallyVars>>

LocateNext ==
    \/ CallFindTargetFilesParallel
    \/ CallFindTargetFilesEfficient
    \/ CallFindTargetFilesConcurrent
    \/ EfficientProbe
    \/ EfficientReturn
    \/ JobsSend
    \/ JobsClose
    \/ \E w \in DOMAIN swpc : SearchWorkerTake(w)
    \/ \E w \in DOMAIN swpc : SearchWorkerExit(w)
    \/ \E w \in DOMAIN swpc : SearchWorkerAttempt(w)
    \/ \E w \in DOMAIN swpc : SearchWorkerSleep(w)
    \/ ResultsClose
    \/ CollectResult
    \/ ProcessResults
    \/ AnalyzeAfterLocate

\* ---- the locator on its own: every catalog order, probe outcome and schedule
LocNames == <<FileB04, FileB12, FileB9>>      \* ascending as strings

LocWindow == [StartTime |-> 200000, EndTime |-> 200300]

\* estimated ranges, placed relative to the window and its 6h buffer
RangeBeforeNarrow ==
    FileTimeRange(LocWindow.StartTime - bufferTime - 100, LocWindow.StartTime - bufferTime - 1)
RangeBeforeWide ==
    FileTimeRange(LocWindow.StartTime - bufferTime - 1 - wideSpan - 100,
                  LocWindow.StartTime - bufferTime - 1)
RangeEndOnlyBefore == FileTimeRange(ZeroTime, LocWindow.StartTime - bufferTime - 1)
RangeInside == FileTimeRange(LocWindow.StartTime, LocWindow.EndTime)
RangeAfterNear == FileTimeRange(LocWindow.EndTime + 1, LocWindow.EndTime + 50)
LocRanges == {RangeBeforeNarrow, RangeBeforeWide, RangeEndOnlyBefore, RangeInside,
              RangeAfterNear}

\* each file either answers its first probe or never answers within the retries
LocBehaviours ==
    {ProbeBehaviour(0, r) : r \in LocRanges} \cup {ProbeBehaviour(maxRetries, RangeInside)}

\* each file answers after some number of failed probes
RetryBehaviours == {ProbeBehaviour(n, RangeInside) : n \in 0..MaxFails}

LocateStart(names, catalog, behaviours) ==
    /\ DedupIdle /\ ExtractIdle /\ PoolIdle /\ ProbeIdle /\ ReportIdle /\ MainIdle /\ FormatIdle /\ TallyIdle
    /\ cfgStartTime = LocWindow.StartTime /\ cfgEndTime = LocWindow.EndTime
    /\ cfgWorkers \in 0..MaxWorkers
    /\ cfgVerbose = FALSE
    /\ files = catalog
    /\ behaviour \in [names -> behaviours]
    /\ lpc = "start" /\ locAlgo = "none" /\ locErr = FALSE
    /\ jobs = <<>> /\ jobsClosed = FALSE /\ jobIdx = 0
    /\ swpc = <<>> /\ swJob = <<>> /\ swRetry = <<>> /\ swErr = <<>>
    /\ results = <<>> /\ resultsClosed = FALSE /\ allResults = <<>>
    /\ probed = <<>>
    /\ attempts = [f \in names |-> 0]
    /\ sleeps = [f \in names |-> 0]
    /\ conns = {}

LocateInit ==
    \E k \in 0..MaxFiles :
        \E catalog \in Orderings(Range(SubSeq(LocNames, 1, k))) :
            LocateStart(Range(catalog), catalog, LocBehaviours)

SpecLocate == LocateInit /\ [][LocateNext]_vars

RetryNames == <<FileB04, FileB12>>

RetryInit == LocateStart(Range(RetryNames), RetryNames, RetryBehaviours)

SpecRetry == RetryInit /\ [][LocateNext]_vars

\* ---- what the locator is claimed to do
\* the place of a name in ascending order, read off the list written above
NameRank(f) == CHOOSE i \in 1..Len(LocNames) : LocNames[i] = f

\* the catalog in ascending name order
CatalogAscending == SelectSeq(LocNames, LAMBDA f : f \in DOMAIN behaviour)

located == lpc \in {"done", "handed"} /\ ~locErr

\* C3 (as claimed): for a list of k files and a worker count in 1..k, the concurrent
\* search returns the same set of files as the sequential scan of the same list
\* with the same probe outcomes.
C3_SameSelection ==
    (located /\ locAlgo = "concurrent" /\ cfgWorkers \in 1..Len(files)) =>
        Range(targetFiles) =
            Range(FindTargetFilesEfficient(files, behaviour, cfgStartTime, cfgEndTime).targets)

\* the files a concurrent search has to return, in the order it has to return them:
\* decided by the probe outcomes alone
ExpectedSelection ==
    SelectSeq(CatalogAscending,
              LAMBDA f : /\ behaviour[f].fails < 10
                         /\ isFileInTimeRange(behaviour[f].range, cfgStartTime, cfgEndTime))

\* C4: whatever the worker count and the order in which the workers complete, the
\* concurrent search returns the list fixed by the probe outcomes, in ascending
\* file-name order.
C4_OrderIndependent ==
    (located /\ locAlgo = "concurrent") => targetFiles = ExpectedSelection

\* two workers completed in descending name order, both files were selected
C4_Witness ==
    /\ located /\ locAlgo = "concurrent" /\ cfgWorkers = 2
    /\ Len(allResults) = 2
    /\ allResults[1].File = FileB12 /\ allResults[2].File = FileB04
    /\ targetFiles = <<FileB04, FileB12>>

\* the file was handed to the extraction phase
QueuedForExtraction(f) == cpc \in {"collect", "verbose", "pooled"} /\ f \in DOMAIN extracted

EndsBeforeBuffer(r) == r.EndTime # ZeroTime /\ r.EndTime < cfgStartTime - 6 * 3600

\* C7 (as claimed): a file whose estimated end lies more than 6h before the window
\* start is never selected and never handed to the extraction.
C7_BeforeBufferNeverSelected ==
    \A f \in DOMAIN behaviour :
        EndsBeforeBuffer(behaviour[f].range) =>
            /\ f \notin Range(targetFiles)
            /\ ~QueuedForExtraction(f)

\* C7 (amended): a file whose estimated range has both bounds known, spans at most
\* 24h and ends more than 6h before the window start is never selected and never
\* handed to the extraction.
C7_NarrowBeforeBufferNeverSelected ==
    \A f \in DOMAIN behaviour :
        (/\ EndsBeforeBuffer(behaviour[f].range)
         /\ behaviour[f].range.StartTime # ZeroTime
         /\ behaviour[f].range.EndTime - behaviour[f].range.StartTime <= 24 * 3600) =>
            /\ f \notin Range(targetFiles)
            /\ ~QueuedForExtraction(f)

\* b.04 was probed, ends well before the buffer and was left out, while b.12 was
\* selected and handed to the extraction
C7_Witness ==
    /\ lpc = "handed" /\ cpc = "collect"
    /\ FileB04 \in DOMAIN behaviour
    /\ behaviour[FileB04] = ProbeBehaviour(0, RangeBeforeNarrow)
    /\ attempts[FileB04] = 1
    /\ FileB04 \notin Range(targetFiles)
    /\ targetFiles = <<FileB12>>
    /\ DOMAIN extracted = {FileB12}

\* the worker that is at work on file f, if any
Holders(f) == {w \in DOMAIN swpc : swpc[w] \in {"attempt", "sleep"} /\ swJob[w].File = f}

Succeeded(f) ==
    \E r \in Range(results) \cup Range(allResults) : r.File = f /\ ~r.Error

\* the probe of f is over and gave no range
Abandoned(f) == attempts[f] > 0 /\ Holders(f) = {} /\ ~Succeeded(f)

\* C8: in the concurrent search a file is probed at most 10 times, never again
\* after a probe succeeded, with one pause before each attempt but the first, and
\* it is given up only when 10 attempts have failed.
C8_RetryBound ==
    locAlgo = "concurrent" =>
        \A f \in DOMAIN attempts :
            /\ attempts[f] <= 10
            /\ attempts[f] <= behaviour[f].fails + 1
            /\ (\E w \in Holders(f) : swpc[w] = "attempt") => sleeps[f] = attempts[f]
            /\ (\E w \in Holders(f) : swpc[w] = "sleep") => sleeps[f] = attempts[f] - 1
            /\ (Holders(f) = {} /\ attempts[f] > 0) => sleeps[f] = attempts[f] - 1
            /\ Abandoned(f) => (attempts[f] = 10 /\ behaviour[f].fails >= 10)
            /\ \A r \in Range(results) : (r.File = f /\ r.Error) => attempts[f] = 10

\* b.04 was given up after 10 attempts and 9 pauses, b.12 answered its 4th attempt
C8_Witness ==
    /\ located /\ locAlgo = "concurrent"
    /\ attempts[FileB04] = 10 /\ sleeps[FileB04] = 9 /\ Abandoned(FileB04)
    /\ attempts[FileB12] = 4 /\ sleeps[FileB12] = 3
    /\ targetFiles = <<FileB12>>

\* C9 (as claimed): no worker is at work on a file while a connection it opened
\* for an earlier file is still open, in the concurrent search, in the sequential
\* scan and in the extraction.
C9_ClosedBeforeNextJob ==
    /\ \A w \in DOMAIN swpc :
           swpc[w] \in {"attempt", "sleep"} => ~\E c \in conns : c.owner = w
    /\ (locAlgo = "efficient" /\ lpc = "running" /\ jobIdx < Len(files)) =>
           ~\E c \in conns : c.owner = 0
    /\ \A f \in DOMAIN extracted : extracted[f] # NoResult => extracted[f].closed

\* the file stops the scan: it answered and starts after the window end
StopsScan(f) ==
    /\ behaviour[f].fails = 0
    /\ behaviour[f].range.StartTime # ZeroTime
    /\ behaviour[f].range.StartTime > cfgEndTime

\* C10: the sequential scan visits the files in ascending name order, and a file
\* that answered with a start after the window end is the last one visited: no later
\* name is probed or selected.
C10_SequentialEarlyStop ==
    locAlgo = "efficient" =>
        /\ Len(probed) <= Len(CatalogAscending)
        /\ probed = SubSeq(CatalogAscending, 1, Len(probed))
        /\ \A i \in 1..Len(probed) :
               StopsScan(probed[i]) =>
                   /\ i = Len(probed)
                   /\ lpc \in {"done", "handed"}
                   /\ \A t \in Range(targetFiles) : NameRank(t) <= NameRank(probed[i])

\* the scan of two files ended after b.04, which starts just after the window end
C10_Witness ==
    /\ located /\ locAlgo = "efficient"
    /\ Len(files) = 2
    /\ behaviour[FileB04].range = RangeAfterNear
    /\ probed = <<FileB04>>
    /\ attempts[FileB12] = 0
    /\ targetFiles = <<FileB04>>

\* C11 (as claimed): the concurrent search applies the early stop after sorting:
\* no file that sorts after an answered file starting after the window end is in
\* the returned list.
C11_ConcurrentEarlyStop ==
    (located /\ locAlgo = "concurrent") =>
        \A f \in DOMAIN behaviour :
            (/\ behaviour[f].fails < 10
             /\ behaviour[f].range.StartTime # ZeroTime
             /\ behaviour[f].range.StartTime > cfgEndTime) =>
                \A t \in Range(targetFiles) : NameRank(t) <= NameRank(f)

\* ------------------------------------------------------------------------
\* The range probe of one file: getFileTimeRangeQuick
\* (efficient_finder.go:103; an edition with a file-boundary test is kept in
\* value_formatter.go:415)
\* ------------------------------------------------------------------------
\* an event header as the probe reads it
ProbeEvent(ts, pos, size) == [Timestamp |-> ts, LogPos |-> pos, EventSize |-> size]

\* the stream of a probe: whether StartSync succeeds and the events GetEvent
\* returns in order, written as runs <<n, event>> of n equal events; the read
\* after the last of them returns an error (the end of the stream, a read error,
\* or the deadline met while waiting)
ProbeStream(startOK, runs) == [startOK |-> startOK, runs |-> runs]

ProbeResult_ErrorWithoutBounds(isErr, start, end, reads) ==
    [err |-> isErr \/ (start = ZeroTime /\ end = ZeroTime),
     timeRange |-> FileTimeRange(start, end), reads |-> reads]

ProbeResult(isErr, start, end, reads) ==
    [err |-> isErr, timeRange |-> FileTimeRange(start, end), reads |-> reads]

\* time.Unix of a header timestamp that was seen, the zero time otherwise
TimeOf(ts) == IF ts > 0 THEN ts ELSE ZeroTime

Min2(a, b) == IF a < b THEN a ELSE b

headEvents == 50
maxSamples == 50

\* value_formatter.go:454-467, 507-516: the event lies beyond the recorded size
\* (uint32 arithmetic)
CrossedBoundary(ev, fileSize) ==
    /\ ev.LogPos > fileSize
    /\ ev.EventSize > 0
    /\ (ev.LogPos - ev.EventSize) % Pow2(PosWidth) > fileSize

\* the second loop: up to maxSamples events with a timestamp.  reads is the
\* number of events read so far, deadlineAt the number of reads after which the
\* context is done, checked whether this edition tests the file boundary.  One
\* level takes the k next passes of the loop, all over equal events of one run.
\* The break of the boundary test leaves the select statement only, so the loop
\* goes on with the next event.
RECURSIVE TailLoop_CountsAll(_, _, _, _, _, _, _, _)
TailLoop_CountsAll(runs, fileSize, deadlineAt, checked, reads, sampleCount, first, last) ==
    IF ~(sampleCount < maxSamples) THEN ProbeResult(FALSE, TimeOf(first), TimeOf(last), reads)
    ELSE IF reads >= deadlineAt THEN ProbeResult(FALSE, TimeOf(first), TimeOf(last), reads)
    ELSE IF runs = <<>> THEN ProbeResult(FALSE, TimeOf(first), TimeOf(last), reads)
    ELSE LET n == Head(runs)[1]
             ev == Head(runs)[2]
             sampled == ~(checked /\ CrossedBoundary(ev, fileSize)) /\ ev.Timestamp > 0
             k == Min2(n, Min2(maxSamples - sampleCount, deadlineAt - reads))
             rest == IF k < n THEN <<<<n - k, ev>>>> \o Tail(runs) ELSE Tail(runs)
         IN  TailLoop_CountsAll(rest, fileSize, deadlineAt, checked, reads + k,
                                sampleCount + k,
                                first,
                                IF sampled THEN ev.Timestamp ELSE last)

RECURSIVE TailLoop(_, _, _, _, _, _, _, _)
TailLoop(runs, fileSize, deadlineAt, checked, reads, sampleCount, first, last) ==
    IF ~(sampleCount < maxSamples) THEN ProbeResult(FALSE, TimeOf(first), TimeOf(last), reads)
    ELSE IF reads >= deadlineAt THEN ProbeResult(FALSE, TimeOf(first), TimeOf(last), reads)
    ELSE IF runs = <<>> THEN ProbeResult(FALSE, TimeOf(first), TimeOf(last), reads)
    ELSE LET n == Head(runs)[1]
             ev == Head(runs)[2]
             sampled == ~(checked /\ CrossedBoundary(ev, fileSize)) /\ ev.Timestamp > 0
             k == IF sampled
                  THEN Min2(n, Min2(maxSamples - sampleCount, deadlineAt - reads))
                  ELSE Min2(n, deadlineAt - reads)
             rest == IF k < n THEN <<<<n - k, ev>>>> \o Tail(runs) ELSE Tail(runs)
         IN  TailLoop(rest, fileSize, deadlineAt, checked, reads + k,
                      IF sampled THEN sampleCount + k ELSE sampleCount,
                      first,
                      IF sampled THEN ev.Timestamp ELSE last)

\* the first loop: up to headEvents events of any kind
RECURSIVE HeadLoop(_, _, _, _, _, _, _, _)
HeadLoop(runs, fileSize, deadlineAt, checked, reads, eventCount, first, last) ==
    IF ~(eventCount < headEvents)
    THEN TailLoop(runs, fileSize, deadlineAt, checked, reads, 0, first, last)
    ELSE IF reads >= deadlineAt THEN ProbeResult(FALSE, TimeOf(first), ZeroTime, reads)
    ELSE IF runs = <<>>
         THEN IF first > 0 THEN ProbeResult(FALSE, TimeOf(first), TimeOf(last), reads)
              ELSE ProbeResult(FALSE, ZeroTime, ZeroTime, reads)
    ELSE LET n == Head(runs)[1]
             ev == Head(runs)[2]
             counted == ~(checked /\ CrossedBoundary(ev, fileSize))
             stamped == counted /\ ev.Timestamp > 0
             k == IF counted
                  THEN Min2(n, Min2(headEvents - eventCount, deadlineAt - reads))
                  ELSE Min2(n, deadlineAt - reads)
             rest == IF k < n THEN <<<<n - k, ev>>>> \o Tail(runs) ELSE Tail(runs)
         IN  HeadLoop(rest, fileSize, deadlineAt, checked, reads + k,
                      IF counted THEN eventCount + k ELSE eventCount,
                      IF stamped /\ first = 0 THEN ev.Timestamp ELSE first,
                      IF stamped THEN ev.Timestamp ELSE last)

\* efficient_finder.go:103-190
getFileTimeRangeQuick(strm, fileSize, deadlineAt) ==
    IF ~strm.startOK THEN ProbeResult(TRUE, ZeroTime, ZeroTime, 0)
    ELSE HeadLoop(strm.runs, fileSize, deadlineAt, FALSE, 0, 0, 0, 0)

\* value_formatter.go:415-531
getFileTimeRangeQuickBounded(strm, fileSize, deadlineAt) ==
    IF ~strm.startOK THEN ProbeResult(TRUE, ZeroTime, ZeroTime, 0)
    ELSE HeadLoop(strm.runs, fileSize, deadlineAt, TRUE, 0, 0, 0, 0)

\* ---- one probe on its own: every stream made of a few runs of equal events
ProbeFileSize == [Size |-> 8]

\* events inside the file without and with a timestamp, an event inside by its
\* offsets that carries the later timestamp, an event that ends just past the
\* recorded size, and an event that lies wholly beyond it
ProbeEvents ==
    {ProbeEvent(0, 8, 1), ProbeEvent(5, 8, 1), ProbeEvent(9, 8, 1),
     ProbeEvent(9, 9, 1), ProbeEvent(9, 10, 1)}

RunLengths == {1, headEvents}

RECURSIVE StreamLen(_)
StreamLen(runs) == IF runs = <<>> THEN 0 ELSE Head(runs)[1] + StreamLen(Tail(runs))

ProbeStreams ==
    {ProbeStream(FALSE, <<>>)} \cup
    {ProbeStream(TRUE, runs) : runs \in SeqsUpTo(RunLengths \X ProbeEvents, MaxSegments)}

\* the deadline falls before the first read, after it, around the end of the
\* first loop, or not at all
ProbeDeadlines(strm) == {0, 1, headEvents, headEvents + 1, StreamLen(strm.runs) + 1}

ProbeInit ==
    /\ DedupIdle /\ CfgIdle /\ ExtractIdle /\ PoolIdle /\ LocateIdle /\ ReportIdle /\ MainIdle /\ FormatIdle /\ TallyIdle
    /\ ppc = "ready"
    /\ pStream \in ProbeStreams
    /\ pSize = ProbeFileSize.Size
    /\ pChecked = FALSE
    /\ pDeadline = 0
    /\ pResult = <<>>

ProbeCall ==
    /\ ppc = "ready"
    /\ \E deadlineAt \in ProbeDeadlines(pStream) :
           /\ pDeadline' = deadlineAt
           /\ pResult' = getFileTimeRangeQuick(pStream, pSize, deadlineAt)
    /\ pChecked' = FALSE
    /\ ppc' = "returned"
    /\ UNCHANGED <<pStream, pSize>>
    /\ UNCHANGED outsideProbe

ProbeCallBounded ==
    /\ ppc = "ready"
    /\ \E deadlineAt \in ProbeDeadlines(pStream) :
           /\ pDeadline' = deadlineAt
           /\ pResult' = getFileTimeRangeQuickBounded(pStream, pSize, deadlineAt)
    /\ pChecked' = TRUE
    /\ ppc' = "returned"
    /\ UNCHANGED <<pStream, pSize>>
    /\ UNCHANGED outsideProbe

ProbeNext == ProbeCall \/ ProbeCallBounded

SpecProbe == ProbeInit /\ [][ProbeNext]_vars

\* the runs before the first run of events lying beyond the recorded size; the
\* whole stream if there is none
RECURSIVE RunsBeforeCrossing(_)
RunsBeforeCrossing(runs) ==
    IF runs = <<>> THEN <<>>
    ELSE IF Head(runs)[2].LogPos - Head(runs)[2].EventSize > pSize THEN <<>>
    ELSE <<Head(runs)>> \o RunsBeforeCrossing(Tail(runs))

HasCrossing == Len(RunsBeforeCrossing(pStream.runs)) < Len(pStream.runs)

\* the place in the stream of the first event beyond the recorded size
FirstCrossing == StreamLen(RunsBeforeCrossing(pStream.runs)) + 1

\* the instants the events before it can give to a range
TimesBeforeCrossing ==
    {ZeroTime} \cup {r[2].Timestamp : r \in Range(RunsBeforeCrossing(pStream.runs))}

\* C12 (as claimed): once an event beyond the recorded size has been read, the
\* probe reads nothing more, and neither bound of the returned range comes from
\* that event or a later one.
C12_StopsAtBoundary ==
    (ppc = "returned" /\ ~pResult.err /\ HasCrossing) =>
        /\ pResult.reads <= FirstCrossing
        /\ pResult.timeRange.StartTime \in TimesBeforeCrossing
        /\ pResult.timeRange.EndTime \in TimesBeforeCrossing

\* ---- how the run ends (main.go runBinlogAnalysis)
\* Analyze returned an error
AnalyzeFailed == cpc = "failed"

\* the exit status of the process once Analyze has returned
ExitStatus == IF AnalyzeFailed THEN 1 ELSE 0

\* C13 (as claimed): a run whose catalog is not empty but whose locator selects
\* no file ends with a non-zero exit status.
C13_NoFilesInRangeFails ==
    (lpc = "handed" /\ Len(files) > 0 /\ ~locErr /\ Len(targetFiles) = 0) =>
        ExitStatus # 0


\* ------------------------------------------------------------------------
\* A whole run: the locator, then the extraction of what it returned
\* (analyzer.go:103-233), every enabled step eventually taken
\* ------------------------------------------------------------------------
RunNames == <<FileB04, FileB12>>

\* a file answers at once, answers at the third attempt, or never within maxRetries
RunBehaviours ==
    {ProbeBehaviour(0, RangeInside), ProbeBehaviour(2, RangeInside),
     ProbeBehaviour(maxRetries, RangeInside)}

RunInit ==
    /\ DedupIdle /\ ExtractIdle /\ PoolIdle /\ ProbeIdle /\ ReportIdle /\ MainIdle /\ FormatIdle /\ TallyIdle
    /\ cfgStartTime = LocWindow.StartTime /\ cfgEndTime = LocWindow.EndTime
    /\ cfgWorkers \in 0..MaxWorkers
    /\ cfgVerbose \in BOOLEAN
    /\ \E k \in 0..Len(RunNames) :
         /\ files = SubSeq(RunNames, 1, k)
         /\ behaviour \in [Range(SubSeq(RunNames, 1, k)) -> RunBehaviours]
         /\ attempts = [f \in Range(SubSeq(RunNames, 1, k)) |-> 0]
         /\ sleeps = [f \in Range(SubSeq(RunNames, 1, k)) |-> 0]
    /\ lpc = "start" /\ locAlgo = "none" /\ locErr = FALSE
    /\ jobs = <<>> /\ jobsClosed = FALSE /\ jobIdx = 0
    /\ swpc = <<>> /\ swJob = <<>> /\ swRetry = <<>> /\ swErr = <<>>
    /\ results = <<>> /\ resultsClosed = FALSE /\ allResults = <<>>
    /\ probed = <<>>
    /\ conns = {}

\* Analyze reaches the locator through FindTargetFilesParallel only (line 103)
RunNext ==
    \/ CallFindTargetFilesParallel
    \/ EfficientProbe
    \/ EfficientReturn
    \/ JobsSend
    \/ JobsClose
    \/ \E w \in DOMAIN swpc : SearchWorkerTake(w)
    \/ \E w \in DOMAIN swpc : SearchWorkerExit(w)
    \/ \E w \in DOMAIN swpc : SearchWorkerAttempt(w)
    \/ \E w \in DOMAIN swpc : SearchWorkerSleep(w)
    \/ ResultsClose
    \/ CollectResult
    \/ ProcessResults
    \/ AnalyzeAfterLocate
    \/ PoolNext

\* the Go scheduler runs every goroutine that can take a step, a sleep ends, and
\* a stream read returns
SpecRun == RunInit /\ [][RunNext]_vars /\ WF_vars(RunNext)

RunEnded == cpc \in {"failed", "nofiles", "pooled"}

\* C14: every run ends: the locator's collector finishes, then the extraction
\* collector finishes, and Analyze is left with its (possibly partial) list of
\* events, with nothing to extract, or with the locator's error
C14_RunTerminates == <>RunEnded

\* a run that ended although one file was given up after maxRetries failed probes
\* and the extraction of another one failed
C14_Witness ==
    /\ cpc = "pooled"
    /\ \E f \in DOMAIN behaviour : attempts[f] = maxRetries /\ behaviour[f].fails = maxRetries
    /\ \E f \in DOMAIN extracted : extracted[f] # NoResult /\ extracted[f].err

\* ------------------------------------------------------------------------
\* The end of Analyze: pooling, removeDuplicateEvents, outputResults
\* (analyzer.go:196-282, 359-407)
\* ------------------------------------------------------------------------
MaxPerFile == 2      \* most events the extraction of one file returns here

\* one step of the insertion sort that sort.Slice runs on a slice of at most 12
\* elements: the new element moves left while it is Before its neighbour, so it
\* ends behind every element that is not later than it
InsertByTimestamp(sorted, ev) ==
    LET k == Cardinality({i \in 1..Len(sorted) : sorted[i].Timestamp <= ev.Timestamp})
    IN  SubSeq(sorted, 1, k) \o <<ev>> \o SubSeq(sorted, k + 1, Len(sorted))

\* lines 373-375: sort.Slice(events, Timestamp.Before)
SortByTimestamp_None(events) == events

RECURSIVE SortByTimestamp(_)
SortByTimestamp(events) ==
    IF events = <<>> THEN <<>>
    ELSE InsertByTimestamp(SortByTimestamp(SubSeq(events, 1, Len(events) - 1)),
                           events[Len(events)])

\* lines 385-395: what one event block shows of its event
Block(ev) ==
    [at |-> ev.Position, time |-> ev.Timestamp, endLogPos |-> ev.Position,
     file |-> ev.Filename]

\* lines 373-395: the header's "Total Events" and the blocks in written order
outputResults(events) ==
    LET sorted == SortByTimestamp(events)
    IN  [total |-> Len(sorted), blocks |-> [i \in 1..Len(sorted) |-> Block(sorted[i])]]

NoReport == <<>>

\* lines 196-206: the collector appends each file's list as its worker delivers it
RECURSIVE PoolInOrder(_, _)
PoolInOrder(lists, completion) ==
    IF completion = <<>> THEN <<>>
    ELSE lists[Head(completion)] \o PoolInOrder(lists, Tail(completion))

\* lines 236-278: nothing is written for an empty pool; otherwise the pool is
\* deduplicated and the survivors are written
AnalyzeTail(pooled, keyOrder) ==
    IF Len(pooled) = 0 THEN NoReport
    ELSE outputResults(removeDuplicateEvents(pooled, keyOrder).uniqueEvents)

ReportFiles == {FileB04, FileB12}

ExtractedOf(f) ==
    {SQLEvent(4, 10, f, "QUERY"), SQLEvent(8, 10, f, "QUERY"), SQLEvent(8, 20, f, "QUERY")}

ReportInit ==
    /\ DedupIdle /\ CfgIdle /\ ExtractIdle /\ PoolIdle /\ LocateIdle /\ ProbeIdle /\ MainIdle /\ FormatIdle /\ TallyIdle
    /\ rpc = "in"
    /\ perFile \in [ReportFiles -> SeqsUpTo(ExtractedOf(FileB04) \cup ExtractedOf(FileB12),
                                            MaxPerFile)]
    /\ \A f \in ReportFiles : Range(perFile[f]) \subseteq ExtractedOf(f)
    /\ report = NoReport
    /\ report2 = NoReport

\* one run: the workers deliver in some order, the map is walked in some order
WriteReport ==
    /\ rpc = "in"
    /\ \E completion \in Orderings(DOMAIN perFile) :
         LET pooled == PoolInOrder(perFile, completion)
         IN  \E keyOrder \in Orderings(EventKeys(pooled)) :
                 report' = AnalyzeTail(pooled, keyOrder)
    /\ rpc' = "once"
    /\ UNCHANGED <<perFile, report2>>
    /\ UNCHANGED outsideReport

\* another run over the same extracted data
WriteReportAgain ==
    /\ rpc = "once"
    /\ \E completion \in Orderings(DOMAIN perFile) :
         LET pooled == PoolInOrder(perFile, completion)
         IN  \E keyOrder \in Orderings(EventKeys(pooled)) :
                 report2' = AnalyzeTail(pooled, keyOrder)
    /\ rpc' = "twice"
    /\ UNCHANGED <<perFile, report>>
    /\ UNCHANGED outsideReport

ReportNext == WriteReport \/ WriteReportAgain

SpecReport == ReportInit /\ [][ReportNext]_vars

\* C15: two runs over the same extracted data write the same sequence of event
\* blocks, whatever the completion order of the workers and the order in which
\* the groups of the deduplicator are walked
C15_SameReport == rpc = "twice" => report2 = report

ExtractedKeys == UNION {EventKeys(perFile[f]) : f \in DOMAIN perFile}

\* C16: the blocks of a written report are in non-decreasing timestamp order and
\* the header's total is the number of blocks, one per deduplicated record
C16_OrderedAndCounted ==
    (rpc \in {"once", "twice"} /\ report # NoReport) =>
        /\ \A i, j \in 1..Len(report.blocks) :
               i < j => report.blocks[i].time <= report.blocks[j].time
        /\ report.total = Len(report.blocks)
        /\ report.total = Cardinality(ExtractedKeys)

\* a report of several blocks whose events were extracted later-first
C16_Witness ==
    /\ rpc = "once" /\ report # NoReport
    /\ perFile[FileB04] = <<SQLEvent(8, 20, FileB04, "QUERY"), SQLEvent(4, 10, FileB04, "QUERY")>>
    /\ perFile[FileB12] = <<SQLEvent(8, 20, FileB12, "QUERY")>>
    /\ report.total = 2

\* ------------------------------------------------------------------------
\* Claims about the worker count, checked on whole runs
\* ------------------------------------------------------------------------
\* C17: with a configured worker count of at most 1 FindTargetFilesParallel runs
\* the sequential scan and no search worker exists; with 2 or more it runs the
\* concurrent search
C17_WorkersChooseAlgorithm ==
    lpc # "start" =>
        IF cfgWorkers <= 1
        THEN locAlgo = "efficient" /\ swpc = <<>>
        ELSE locAlgo = "concurrent"

\* a sequential scan of two files finished under a worker count of 0
C17_Witness ==
    /\ lpc = "done" /\ cfgWorkers = 0 /\ locAlgo = "efficient"
    /\ Len(probed) = 2

Max2(a, b) == IF a > b THEN a ELSE b

ExpectedWorkers(nFiles) == Max2(1, Min2(cfgWorkers, nFiles))

Probing == {w \in DOMAIN swpc : swpc[w] \in {"attempt", "sleep"}}

Extracting == {w \in DOMAIN wpc : wpc[w] = "extract"}

\* C18: the probing pool and the extraction pool each start
\* max(1, min(configured, files)) workers, and never more files than that are
\* in the hands of a worker at once
C18_PoolSizes ==
    /\ (locAlgo = "concurrent" /\ Len(files) > 0) =>
           /\ Cardinality(DOMAIN swpc) = ExpectedWorkers(Len(files))
           /\ Cardinality({swJob[w].File : w \in Probing}) <= ExpectedWorkers(Len(files))
    /\ (cpc \in {"collect", "pooled"} /\ ~cfgVerbose) =>
           /\ Cardinality(DOMAIN wpc) = ExpectedWorkers(Len(targetFiles))
           /\ Cardinality({wFile[w] : w \in Extracting}) <= ExpectedWorkers(Len(targetFiles))

\* one extraction worker at work for two selected files under a worker count of 0
C18_Witness ==
    /\ cpc = "collect" /\ ~cfgVerbose /\ cfgWorkers = 0
    /\ Len(targetFiles) = 2
    /\ Cardinality(Extracting) = 1

\* ------------------------------------------------------------------------
\* Claims about the read loop of ExtractFromSingleFile
\* ------------------------------------------------------------------------
AfterWindow == {i \in 1..Len(xStream.events) : xStream.events[i].Timestamp > cfgEndTime}

FirstAfterWindow == CHOOSE i \in AfterWindow : \A j \in AfterWindow : i <= j

\* the read at which the stream has nothing more for the call
LastUseful == IF AfterWindow = {} THEN Len(xStream.events) ELSE FirstAfterWindow

\* C19: the first event after the window end stops the file at once: it is the
\* last event read and nothing behind it is returned; an event before the window
\* start never stops the file, reading goes on to the first event after the
\* window, the end of the stream or the deadline
C19_StopsAfterWindow ==
    (xpc = "returned" /\ ~xResult.err) =>
        /\ xResult.reads = Min2(xDeadline, LastUseful)
        /\ \A i \in 1..Len(xResult.events) :
               \E j \in 1..xResult.reads :
                   /\ xResult.events[i].Position = xStream.events[j].LogPos
                   /\ AfterWindow # {} => j < FirstAfterWindow

\* an event before the window, then one after it, then a query inside it: two
\* events are read and nothing is returned
C19_Witness ==
    /\ xpc = "returned" /\ ~xResult.err
    /\ Len(xStream.events) = 3
    /\ xStream.events[1].Timestamp < cfgStartTime
    /\ xStream.events[2].Timestamp > cfgEndTime
    /\ xStream.events[3].Timestamp = cfgEndTime /\ xStream.events[3].Kind = "Query"
    /\ xDeadline > 3
    /\ xResult.reads = 2 /\ xResult.events = <<>>

\* ------------------------------------------------------------------------
\* ExtractFromSingleFile on long streams (unnamed/part_002:128-199).  The stream
\* is given as runs <<n, ev>> of n equal events, and one step of the recursion
\* performs all the passes of the read loop that one run allows.
\* ------------------------------------------------------------------------
RunStream(startOK, runs, ending) == [startOK |-> startOK, runs |-> runs, ending |-> ending]

Min3(a, b, c) == Min2(a, Min2(b, c))

Copies(n, s) == [i \in 1..(n * Len(s)) |-> s[1]]

RECURSIVE ExtractRuns(_, _, _, _, _, _, _, _, _)
ExtractRuns(file, runs, ending, deadlineAt, startTime, endTime, reads, eventCount, events) ==
    IF ~(eventCount < maxEvents) THEN ExtractResult(events, FALSE, reads, TRUE, FALSE)
    ELSE IF reads >= deadlineAt THEN ExtractResult(events, FALSE, reads, TRUE, FALSE)
    ELSE IF runs = <<>>
         THEN ExtractResult(events, FALSE, reads, TRUE, ending = "panic")
    ELSE LET n == Head(runs)[1]
             ev == Head(runs)[2]
             verdict == TimeFilter(ev.Timestamp, startTime, endTime)
             m == IF verdict = "skip" THEN Min2(n, deadlineAt - reads)
                  ELSE Min3(n, deadlineAt - reads, maxEvents - eventCount)
             rest == IF m = n THEN Tail(runs) ELSE <<<<n - m, ev>>>> \o Tail(runs)
         IN  CASE verdict = "skip" ->
                    ExtractRuns(file, rest, ending, deadlineAt, startTime, endTime,
                                reads + m, eventCount, events)
               [] verdict = "stop" -> ExtractResult(events, FALSE, reads + 1, TRUE, FALSE)
               [] OTHER ->
                    ExtractRuns(file, rest, ending, deadlineAt, startTime, endTime,
                                reads + m, eventCount + m,
                                events \o Copies(m, convertToSQLEvent(ev, file)))

ExtractFromSingleFileRuns(file, strm, deadlineAt, startTime, endTime) ==
    IF ~strm.startOK
    THEN ExtractResult(<<>>, TRUE, 0, TRUE, FALSE)
    ELSE ExtractRuns(file, strm.runs, strm.ending, deadlineAt, startTime, endTime, 0, 0, <<>>)

\* ---- long streams: runs of 1, maxEvents - 1 or maxEvents events that
\* convertToSQLEvent passes over, before, inside or after the window, and single
\* queries inside the window
BudgetWindow == <<2, 3>>

BudgetRuns ==
    {<<n, StreamEvent(ts, 4, "Other")>> : n \in {1, maxEvents - 1, maxEvents}, ts \in {1, 2, 4}}
        \cup {<<1, StreamEvent(2, 4, "Query")>>}

BudgetStreams ==
    {RunStream(TRUE, runs, ending) : runs \in SeqsUpTo(BudgetRuns, MaxSegments),
                                     ending \in {"err", "panic"}}

BudgetDeadlines(strm) == {1, maxEvents, maxEvents + 1, StreamLen(strm.runs) + 1}

BudgetInit ==
    /\ DedupIdle /\ PoolIdle /\ LocateIdle /\ ProbeIdle /\ ReportIdle /\ MainIdle /\ FormatIdle /\ TallyIdle
    /\ cfgStartTime = BudgetWindow[1] /\ cfgEndTime = BudgetWindow[2]
    /\ cfgWorkers = 0 /\ cfgVerbose = FALSE
    /\ xpc = "ready"
    /\ xFile = FileB04
    /\ xStream \in BudgetStreams
    /\ xResult = <<>>
    /\ xDeadline = 0

ExtractCallRuns ==
    /\ xpc = "ready"
    /\ \E deadlineAt \in BudgetDeadlines(xStream) :
         LET r == ExtractFromSingleFileRuns(xFile, xStream, deadlineAt, cfgStartTime, cfgEndTime)
         IN  /\ xResult' = r
             /\ xDeadline' = deadlineAt
             /\ xpc' = IF r.crashed THEN "crashed" ELSE "returned"
    /\ UNCHANGED <<xFile, xStream, cfgVars>>
    /\ UNCHANGED outsideExtract

BudgetNext == ExtractCallRuns

SpecBudget == BudgetInit /\ [][BudgetNext]_vars

\* C20: a call never reads more than maxEvents events of the stream, whatever
\* their timestamps
C20_BudgetStopsReading ==
    (xpc = "returned" /\ ~xResult.err) => xResult.reads <= maxEvents

\* ------------------------------------------------------------------------
\* Claims about failures during the extraction phase
\* ------------------------------------------------------------------------
FailsToStart == {f \in Range(targetFiles) : ~fileStreams[f].startOK}

InHand(f) == f \in Range(fileChan) \/ \E w \in DOMAIN wFile : wpc[w] = "extract" /\ wFile[w] = f

\* C21: when the extraction phase has ended and the stream of some target file
\* could not be started, that file was tried and given up (it is neither queued
\* nor held by a worker), it contributed nothing to the pool, and the events of
\* every other target file are in the pool
C21_FailedStartSkipped ==
    (cpc = "pooled" /\ FailsToStart # {}) =>
        \A f \in Range(targetFiles) :
            IF f \in FailsToStart
            THEN /\ extracted[f] # NoResult /\ extracted[f].err /\ extracted[f].reads = 0
                 /\ ~InHand(f)
                 /\ PooledOf(f) = <<>>
            ELSE /\ extracted[f] # NoResult
                 /\ PooledOf(f) = extracted[f].events

\* the same statement for the verbose mode alone
C21_VerboseFailedStartSkipped == cfgVerbose => C21_FailedStartSkipped

\* ------------------------------------------------------------------------
\* The overlap test on the edges of the buffered window: a catalog of two files,
\* the first with any range built from the points around the buffer, for a
\* window of 300 seconds and a window of one instant
\* ------------------------------------------------------------------------
OverlapNames == <<FileB04, FileB12>>

OverlapWindows == {<<200000, 200300>>, <<200000, 200000>>}

RangeStarts(s, e) ==
    {ZeroTime, s - bufferTime - wideSpan - 2, s - bufferTime - 11, s,
     e + bufferTime, e + bufferTime + 1}

RangeEnds(s, e) ==
    {ZeroTime, s - bufferTime - 1, s - bufferTime, e,
     e + bufferTime + 6, e + bufferTime + 1 + wideSpan}

OverlapRanges(s, e) == {FileTimeRange(a, b) : a \in RangeStarts(s, e), b \in RangeEnds(s, e)}

RangeUnknown == FileTimeRange(ZeroTime, ZeroTime)

\* the second file has no usable timestamp, lies inside the window, or answers
\* at its second probe
SecondBehaviours(s, e) ==
    {ProbeBehaviour(0, RangeUnknown), ProbeBehaviour(0, FileTimeRange(s, e)),
     ProbeBehaviour(1, FileTimeRange(s, e))}

OverlapInit ==
    /\ DedupIdle /\ ExtractIdle /\ PoolIdle /\ ProbeIdle /\ ReportIdle /\ MainIdle /\ FormatIdle /\ TallyIdle
    /\ \E w \in OverlapWindows :
         /\ cfgStartTime = w[1] /\ cfgEndTime = w[2]
         /\ \E r \in OverlapRanges(w[1], w[2]), b \in SecondBehaviours(w[1], w[2]) :
              behaviour = (FileB04 :> ProbeBehaviour(0, r)) @@ (FileB12 :> b)
    /\ cfgWorkers \in 0..MaxWorkers
    /\ cfgVerbose = FALSE
    /\ files = OverlapNames
    /\ lpc = "start" /\ locAlgo = "none" /\ locErr = FALSE
    /\ jobs = <<>> /\ jobsClosed = FALSE /\ jobIdx = 0
    /\ swpc = <<>> /\ swJob = <<>> /\ swRetry = <<>> /\ swErr = <<>>
    /\ results = <<>> /\ resultsClosed = FALSE /\ allResults = <<>>
    /\ probed = <<>>
    /\ attempts = [f \in Range(OverlapNames) |-> 0]
    /\ sleeps = [f \in Range(OverlapNames) |-> 0]
    /\ conns = {}

SpecOverlap == OverlapInit /\ [][LocateNext]_vars

\* the probe of f was made and gave a range
Answered(f) == attempts[f] > behaviour[f].fails

\* C22: a file whose probe gave no error and no timestamp is selected whenever
\* the locator has visited it
C22_UnknownRangeSelected ==
    located =>
        \A f \in DOMAIN behaviour :
            (Answered(f) /\ behaviour[f].range = RangeUnknown) => f \in Range(targetFiles)

\* a sequential scan that visited both files and selected the second, which has
\* no timestamp, although the first lies before the buffered window
C22_Witness ==
    /\ located /\ locAlgo = "efficient"
    /\ behaviour[FileB12].range = RangeUnknown /\ Answered(FileB12)
    /\ behaviour[FileB04].range = FileTimeRange(cfgStartTime - bufferTime - 11,
                                                cfgStartTime - bufferTime - 1)
    /\ targetFiles = <<FileB12>>

BothKnown(r) == r.StartTime # ZeroTime /\ r.EndTime # ZeroTime

ParseClock(str) ==
    IF /\ Len(str) = 5 /\ str[3] = ":"
       /\ AtoiOk(SubSeq(str, 1, 2)) /\ AtoiOk(SubSeq(str, 4, 5))
       /\ AtoiVal(SubSeq(str, 1, 2), 0) < 60 /\ AtoiVal(SubSeq(str, 4, 5), 0) < 60
    THEN [ok |-> TRUE, t |-> 60 * AtoiVal(SubSeq(str, 1, 2), 0) + AtoiVal(SubSeq(str, 4, 5), 0)]
    ELSE [ok |-> FALSE, t |-> 0]

\* line 93: startTimeUTC.After(endTimeUTC)
StartAfterEnd_Inclusive(s, e) == s >= e

StartAfterEnd(s, e) == s > e

ClockArgs ==
    {<<"0", "0", ":", "0", "0">>, <<"0", "0", ":", "5", "9">>, <<"0", "1", ":", "0", "0">>,
     <<"0", "1", ":", "0">>, <<"0", "a", ":", "0", "0">>, <<"0", "0", ":", "6", "0">>}

MainInit ==
    /\ DedupIdle /\ ExtractIdle /\ PoolIdle /\ LocateIdle /\ ProbeIdle /\ ReportIdle /\ FormatIdle /\ TallyIdle
    /\ cfgStartTime = 0 /\ cfgEndTime = 0
    /\ cfgWorkers \in 0..MaxWorkers
    /\ cfgVerbose \in BOOLEAN
    /\ mpc = "start"
    /\ argStart \in ClockArgs
    /\ argEnd \in ClockArgs
    /\ exitCode = 0 /\ message = "" /\ touched = {}

\* lines 73-117: the arguments are parsed and compared, then the analyzer is made
runBinlogAnalysis ==
    /\ mpc = "start"
    /\ LET ps == ParseClock(argStart)
           pe == ParseClock(argEnd)
       IN  IF ~ps.ok
           THEN /\ mpc' = "exited" /\ exitCode' = 1 /\ message' = "start format"
                /\ UNCHANGED <<cfgStartTime, cfgEndTime>>
           ELSE IF ~pe.ok
           THEN /\ mpc' = "exited" /\ exitCode' = 1 /\ message' = "end format"
                /\ UNCHANGED <<cfgStartTime, cfgEndTime>>
           ELSE IF StartAfterEnd(ps.t, pe.t)
           THEN /\ mpc' = "exited" /\ exitCode' = 1 /\ message' = "start after end"
                /\ UNCHANGED <<cfgStartTime, cfgEndTime>>
           ELSE /\ mpc' = "connect" /\ UNCHANGED <<exitCode, message>>
                /\ cfgStartTime' = ps.t /\ cfgEndTime' = pe.t
    /\ UNCHANGED <<argStart, argEnd, touched, cfgWorkers, cfgVerbose>>
    /\ UNCHANGED outsideMain

\* analyzer.go:63-65 and main.go:119-122: connect, or fail and exit
AnalyzeConnect ==
    /\ mpc = "connect"
    /\ touched' = touched \cup {"connect"}
    /\ \E ok \in BOOLEAN :
         IF ok THEN mpc' = "list" /\ UNCHANGED <<exitCode, message>>
         ELSE mpc' = "exited" /\ exitCode' = 1 /\ message' = "connect failed"
    /\ UNCHANGED <<argStart, argEnd, cfgVars>>
    /\ UNCHANGED outsideMain

\* analyzer.go:87-90 and main.go:119-122: list the files, or fail and exit
AnalyzeList ==
    /\ mpc = "list"
    /\ touched' = touched \cup {"list"}
    /\ \E ok \in BOOLEAN :
         IF ok THEN mpc' = "locate" /\ UNCHANGED <<exitCode, message>>
         ELSE mpc' = "exited" /\ exitCode' = 1 /\ message' = "list failed"
    /\ UNCHANGED <<argStart, argEnd, cfgVars>>
    /\ UNCHANGED outsideMain

MainNext == runBinlogAnalysis \/ AnalyzeConnect \/ AnalyzeList

SpecMain == MainInit /\ [][MainNext]_vars

NilValue == [kind |-> "nil"]
StringValue(runs) == [kind |-> "string", runs |-> runs]
BytesValue(runs) == [kind |-> "bytes", runs |-> runs]
IntValue(n) == [kind |-> "int", n |-> n]
BoolValue(b) == [kind |-> "bool", b |-> b]

RECURSIVE GoString(_)
GoString(runs) ==
    IF runs = <<>> THEN <<>>
    ELSE [i \in 1..Head(runs)[1] |-> Head(runs)[2]] \o GoString(Tail(runs))

Quote == "'"

\* strings.ReplaceAll(v, "'", "''")
ReplaceAllQuotes(runs) ==
    [k \in 1..Len(runs) |-> IF runs[k][2] = Quote THEN <<2 * runs[k][1], Quote>> ELSE runs[k]]

truncateOver == 50
truncateKeep == 47

DigitChar(d) ==
    CASE d = 0 -> "0" [] d = 1 -> "1" [] d = 2 -> "2" [] d = 3 -> "3" [] d = 4 -> "4"
      [] d = 5 -> "5" [] d = 6 -> "6" [] d = 7 -> "7" [] d = 8 -> "8" [] d = 9 -> "9"

\* fmt.Sprintf("%d", v) for 0 <= v < 100
Itoa(n) == IF n < 10 THEN <<DigitChar(n)>> ELSE <<DigitChar(n \div 10), DigitChar(n % 10)>>

\* lines 17-32: the string and []byte cases
QuotedLiteral_CutBeforeEscape(runs) ==
    LET v == GoString(runs)
        cut == IF Len(v) > truncateOver
               THEN SubSeq(v, 1, truncateKeep) \o <<".", ".", ".">>
               ELSE v
    IN  <<Quote>> \o cut \o <<Quote>>

QuotedLiteral(runs) ==
    LET escaped == GoString(ReplaceAllQuotes(runs))
        cut == IF Len(escaped) > truncateOver
               THEN SubSeq(escaped, 1, truncateKeep) \o <<".", ".", ".">>
               ELSE escaped
    IN  <<Quote>> \o cut \o <<Quote>>

formatValue(val) ==
    CASE val.kind = "nil" -> <<"N", "U", "L", "L">>
      [] val.kind \in {"string", "bytes"} -> QuotedLiteral(val.runs)
      [] val.kind = "int" -> Itoa(val.n)
      [] val.kind = "bool" -> IF val.b THEN <<"1">> ELSE <<"0">>

\* lines 63-80: nil only equals nil; two []byte are compared as strings;
\* reflect.DeepEqual holds for equal values of the same type
valuesEqual_NilEqualsAll(a, b) ==
    IF a.kind = "nil" \/ b.kind = "nil" THEN TRUE
    ELSE IF a.kind \in {"string", "bytes"}
    THEN b.kind = a.kind /\ GoString(a.runs) = GoString(b.runs)
    ELSE a = b

valuesEqual(a, b) ==
    IF a.kind = "nil" /\ b.kind = "nil" THEN TRUE
    ELSE IF a.kind = "nil" \/ b.kind = "nil" THEN FALSE
    ELSE IF a.kind \in {"string", "bytes"}
    THEN b.kind = a.kind /\ GoString(a.runs) = GoString(b.runs)
    ELSE a = b

\* ---- formatValue on its own: NULL, booleans, small integers, and strings of
\* letters and quotes whose lengths lie around the two limits
FormatRuns == {<<n, c>> : n \in {1, 2, 23, 46, 47, 49, 50, 51}, c \in {"a", Quote}}

FormatValues ==
    {NilValue, BoolValue(TRUE), BoolValue(FALSE), IntValue(7), IntValue(42)}
        \cup {StringValue(r) : r \in SeqsUpTo(FormatRuns, MaxSegments)}
        \cup {BytesValue(r) : r \in SeqsUpTo(FormatRuns, 1)}

FormatInit ==
    /\ DedupIdle /\ CfgIdle /\ ExtractIdle /\ PoolIdle /\ LocateIdle /\ ProbeIdle /\ ReportIdle
    /\ MainIdle /\ TallyIdle
    /\ fpc = "ready"
    /\ fIn \in FormatValues
    /\ fOut = <<>>

CallFormatValue ==
    /\ fpc = "ready"
    /\ fOut' = formatValue(fIn)
    /\ fpc' = "returned"
    /\ UNCHANGED fIn
    /\ UNCHANGED outsideFormat

FormatNext == CallFormatValue

SpecFormat == FormatInit /\ [][FormatNext]_vars

\* the first k bytes of a string, as runs
RECURSIVE TakeRuns(_, _)
TakeRuns(runs, k) ==
    IF runs = <<>> \/ k = 0 THEN <<>>
    ELSE IF Head(runs)[1] >= k THEN <<<<k, Head(runs)[2]>>>>
    ELSE <<Head(runs)>> \o TakeRuns(Tail(runs), k - Head(runs)[1])

\* the literal the claim describes: a string of more than 50 characters is cut
\* to its first 47 characters and "...", and every quote of what is shown is
\* doubled
ClaimedLiteral(runs) ==
    IF StreamLen(runs) > 50
    THEN <<Quote>> \o GoString(ReplaceAllQuotes(TakeRuns(runs, 47))) \o <<".", ".", ".">>
             \o <<Quote>>
    ELSE <<Quote>> \o GoString(ReplaceAllQuotes(runs)) \o <<Quote>>

\* the quotes that directly precede position k of a rendered literal
RECURSIVE QuotesEndingAt(_, _)
QuotesEndingAt(out, k) ==
    IF k = 0 \/ out[k] # Quote THEN 0 ELSE 1 + QuotesEndingAt(out, k - 1)

\* the text between the outer quotes ends in "..." behind an odd number of quotes
EndsInUnpairedQuote(out) ==
    /\ Len(out) >= 6
    /\ SubSeq(out, Len(out) - 3, Len(out) - 1) = <<".", ".", ".">>
    /\ QuotesEndingAt(out, Len(out) - 4) % 2 = 1

\* C25: NULL is rendered as NULL; a string is rendered between single quotes
\* with its quotes doubled, cut to 47 characters and "..." exactly when it has
\* more than 50 characters, and the cut never leaves half of a doubled quote
C25_FormatValue ==
    fpc = "returned" =>
        /\ fIn.kind = "nil" => fOut = <<"N", "U", "L", "L">>
        /\ fIn.kind = "string" =>
               /\ fOut = ClaimedLiteral(fIn.runs)
               /\ ~EndsInUnpairedQuote(fOut)

\* the part of C25 that the code meets: NULL, and strings whose doubled form
\* has at most 50 bytes
C25_ShortStrings ==
    fpc = "returned" =>
        /\ fIn.kind = "nil" => fOut = <<"N", "U", "L", "L">>
        /\ (fIn.kind = "string" /\ Len(GoString(ReplaceAllQuotes(fIn.runs))) <= 50) =>
               fOut = ClaimedLiteral(fIn.runs)

\* ------------------------------------------------------------------------
\* formatUpdateEvent (part_002:324-362).  The statement text is kept as its
\* pieces: the table, then the pieces of updateInfo in the order they are
\* written.
\* ------------------------------------------------------------------------
MaxColumns == 2
MaxPairs == 2

ChangePiece(i, after, before) ==
    [piece |-> "change", col |-> i, after |-> formatValue(after), was |-> formatValue(before)]
NoVisibleChanges == [piece |-> "no visible changes", col |-> 0, after |-> <<>>, was |-> <<>>]
MoreRows(n) == [piece |-> "more rows", col |-> n, after |-> <<>>, was |-> <<>>]
Dots == [piece |-> "...", col |-> 0, after |-> <<>>, was |-> <<>>]

\* lines 340-346: the loop over the columns of the first pair
RECURSIVE ChangesFrom(_, _, _)
ChangesFrom(i, beforeRow, afterRow) ==
    IF ~(i <= Len(beforeRow) /\ i <= Len(afterRow)) THEN <<>>
    ELSE (IF ~valuesEqual(beforeRow[i], afterRow[i])
          THEN <<ChangePiece(i, afterRow[i], beforeRow[i])>>
          ELSE <<>>) \o ChangesFrom(i + 1, beforeRow, afterRow)

formatUpdateEvent(rowsEvent) ==
    LET rowCount == Len(rowsEvent.Rows) \div 2
        changes == ChangesFrom(1, rowsEvent.Rows[1], rowsEvent.Rows[2])
        updateInfo ==
            IF rowCount > 0 /\ Len(rowsEvent.Rows) >= 2
            THEN (IF Len(changes) > 0 THEN changes ELSE <<NoVisibleChanges>>)
                     \o (IF rowCount > 1 THEN <<MoreRows(rowCount - 1)>> ELSE <<>>)
            ELSE <<Dots>>
    IN  [stmt |-> "UPDATE", table |-> rowsEvent.Table, set |-> updateInfo]

\* the values a column of a given type can hold in a row image
ColumnValues(type) ==
    IF type = "string"
    THEN {NilValue, StringValue(<<<<1, "a">>>>), StringValue(<<<<2, Quote>>>>)}
    ELSE {NilValue, IntValue(7), IntValue(42)}

RowImages(types) ==
    {r \in [1..Len(types) -> UNION {ColumnValues(t) : t \in {"string", "int"}}] :
        \A i \in 1..Len(types) : r[i] \in ColumnValues(types[i])}

\* an update event: pairs of a before and an after image of the same table
UpdateEvents ==
    {[Table |-> "t", Rows |-> <<b, a>> \o [k \in 1..(2 * more) |-> a]] :
        <<b, a, more>> \in UNION {RowImages(types) \X RowImages(types) \X (0..MaxPairs - 1) :
                                      types \in SeqsUpTo({"string", "int"}, MaxColumns) \ {<<>>}}}

UpdateInit ==
    /\ DedupIdle /\ CfgIdle /\ ExtractIdle /\ PoolIdle /\ LocateIdle /\ ProbeIdle /\ ReportIdle
    /\ MainIdle /\ TallyIdle
    /\ fpc = "ready"
    /\ fIn \in UpdateEvents
    /\ fOut = <<>>

CallFormatUpdateEvent ==
    /\ fpc = "ready"
    /\ fOut' = formatUpdateEvent(fIn)
    /\ fpc' = "returned"
    /\ UNCHANGED fIn
    /\ UNCHANGED outsideFormat

UpdateNext == CallFormatUpdateEvent

SpecUpdate == UpdateInit /\ [][UpdateNext]_vars

ChangedColumns(rows) == {i \in 1..Len(rows[1]) : rows[1][i] # rows[2][i]}

Listed(set, i) == {k \in 1..Len(set) : set[k].piece = "change" /\ set[k].col = i}

\* C26: for an update event with at least one pair, column i is listed, once
\* and as col_i=<after> (was <before>), exactly when its values in the first
\* pair differ; the "no visible changes" marker is there exactly when no
\* column differs; the count of further rows is there exactly when the event
\* has more than one pair
C26_UpdateListsChanges ==
    fpc = "returned" /\ fOut # <<>> /\ fOut.stmt = "UPDATE" =>
        LET rows == fIn.Rows
            set == fOut.set
        IN  /\ \A i \in 1..Len(rows[1]) :
                   IF i \in ChangedColumns(rows)
                   THEN /\ Cardinality(Listed(set, i)) = 1
                        /\ \A k \in Listed(set, i) :
                               /\ set[k].after = formatValue(rows[2][i])
                               /\ set[k].was = formatValue(rows[1][i])
                   ELSE Listed(set, i) = {}
            /\ \A k, l \in 1..Len(set) :
                   (k < l /\ set[k].piece = "change" /\ set[l].piece = "change") =>
                       set[k].col < set[l].col
            /\ (\E k \in 1..Len(set) : set[k] = NoVisibleChanges) <=> ChangedColumns(rows) = {}
            /\ (\E k \in 1..Len(set) : set[k].piece = "more rows") <=> Len(rows) \div 2 > 1
            /\ \A k \in 1..Len(set) :
                   set[k].piece = "more rows" => k = Len(set) /\ set[k].col = Len(rows) \div 2 - 1

\* an event of two pairs whose first pair changes the first column only
C26_Witness ==
    /\ fpc = "returned" /\ fOut # <<>> /\ fOut.stmt = "UPDATE"
    /\ Len(fIn.Rows) = 4
    /\ Len(fIn.Rows[1]) = 2
    /\ ChangedColumns(fIn.Rows) = {1}
    /\ fIn.Rows[1][1] = NilValue
    /\ Len(fOut.set) = 2

\* ------------------------------------------------------------------------
\* The job queue and the result channel of FindTargetFilesConcurrent
\* (concurrent_finder.go:53-135)
\* ------------------------------------------------------------------------
Holding == {w \in DOMAIN swpc : swpc[w] \in {"attempt", "sleep"}}

\* C27: in the concurrent search no file is received from the job queue twice
\* and no file gets a second result; a worker that holds a job always finds a
\* free slot in the result channel; the result channel is closed only when
\* every worker has finished; and when the search has returned every file was
\* taken once, sent once, and len(files) results were received
C27_OneJobOneResult ==
    (locAlgo = "concurrent" /\ lpc \in {"running", "done", "handed"}) =>
        /\ \A f \in Range(files) :
               /\ TallyOf(jobsTaken, f) <= 1
               /\ TallyOf(resultsSent, f) <= TallyOf(jobsTaken, f)
        /\ Len(results) + Cardinality(Holding) <= Len(files)
        /\ resultsClosed => \A w \in DOMAIN swpc : swpc[w] = "exited"
        /\ lpc # "running" =>
               /\ \A f \in Range(files) :
                      TallyOf(jobsTaken, f) = 1 /\ TallyOf(resultsSent, f) = 1
               /\ resultsReceived = Len(files)

\* two files searched by two workers, one of the two results an error
C27_Witness ==
    /\ locAlgo = "concurrent" /\ lpc = "done"
    /\ Len(files) = 2
    /\ Cardinality(DOMAIN swpc) = 2
    /\ resultsReceived = 2
    /\ Len(allResults) = 1

\* ------------------------------------------------------------------------
\* The concurrent search with one slow file: the goroutines are scheduled
\* fairly, but a probe of the slow file may take for ever
\* ------------------------------------------------------------------------
SlowFile == FileB04

StallBehaviours == {ProbeBehaviour(n, RangeInside) : n \in 0..1}

StallInit == LocateStart(Range(LocNames), LocNames, StallBehaviours)

HoldsSlowFile(w) == swpc[w] \in {"attempt", "sleep"} /\ swJob[w].File = SlowFile

\* the fair steps: the feeding goroutine, and every worker except while it
\* waits for the slow file
StallFairness ==
    /\ WF_vars(JobsSend)
    /\ WF_vars(JobsClose)
    /\ \A w \in 1..MaxWorkers :
           /\ WF_vars(w \in DOMAIN swpc /\ SearchWorkerTake(w))
           /\ WF_vars(w \in DOMAIN swpc /\ ~HoldsSlowFile(w) /\ SearchWorkerAttempt(w))
           /\ WF_vars(w \in DOMAIN swpc /\ ~HoldsSlowFile(w) /\ SearchWorkerSleep(w))

SpecStall == StallInit /\ [][LocateNext]_vars /\ StallFairness

InJobs(f) == \E k \in 1..Len(jobs) : jobs[k].File = f

\* C28: with two or more workers configured, a job that is in the queue is
\* eventually received by a worker, however long the slow file holds up the
\* worker that has it
C28_QueuedJobsTaken ==
    \A f \in Range(LocNames) :
        (searching /\ cfgWorkers >= 2 /\ InJobs(f)) ~> (TallyOf(jobsTaken, f) >= 1)

\* one worker still waits for the first answer of the slow file while the
\* other files have been taken, and one of them already answered
C28_Witness ==
    /\ searching /\ cfgWorkers >= 2
    /\ \E w \in DOMAIN swpc : HoldsSlowFile(w) /\ attempts[SlowFile] = 0
    /\ jobs = <<>> /\ jobsClosed
    /\ \A f \in Range(LocNames) : TallyOf(jobsTaken, f) = 1
    /\ \E f \in Range(LocNames) \ {SlowFile} : TallyOf(resultsSent, f) = 1

\* ------------------------------------------------------------------------
\* Files whose probe never answers (efficient_finder.go:54-62,
\* concurrent_finder.go:108-121 and 142-150, analyzer.go:117-125)
\* ------------------------------------------------------------------------
\* f was probed and every probe of it returned an error
NeverAnswered(f) == attempts[f] >= 1 /\ attempts[f] <= behaviour[f].fails

\* C29: once the locator has returned for a non-empty list, it returned no
\* error, a file all of whose probes failed (the single probe of the sequential
\* scan, all maxRetries probes of a worker) is not in the selection, and when
\* that is so for every file the selection is empty and Analyze ends with the
\* message that no file was found
C29_FailedProbesExcluded ==
    (lpc \in {"done", "handed"} /\ Len(files) > 0) =>
        /\ ~locErr
        /\ \A f \in Range(files) :
               NeverAnswered(f) =>
                   /\ f \notin Range(targetFiles)
                   /\ attempts[f] = IF locAlgo = "concurrent" THEN maxRetries ELSE 1
        /\ (\A f \in Range(files) : NeverAnswered(f)) =>
               /\ targetFiles = <<>>
               /\ lpc = "handed" => (cpc = "nofiles" /\ ~crashed)

\* two files searched by workers, neither of which answered any of its probes
C29_Witness ==
    /\ lpc = "handed" /\ locAlgo = "concurrent"
    /\ Len(files) = 2
    /\ \A f \in Range(files) : NeverAnswered(f) /\ attempts[f] = maxRetries
    /\ cpc = "nofiles"

\* the sequential scan skipped one file and selected the other
C29_SequentialWitness ==
    /\ lpc = "handed" /\ locAlgo = "efficient"
    /\ Len(files) = 2
    /\ NeverAnswered(files[1])
    /\ targetFiles = <<files[2]>>

\* ------------------------------------------------------------------------
\* What getFileTimeRangeQuick returns at each of its exits
\* (efficient_finder.go:118-190)
\* ------------------------------------------------------------------------
\* the first and the last non-zero timestamp of a stream, 0 if it has none
RECURSIVE FirstStamp(_)
FirstStamp(runs) ==
    IF runs = <<>> THEN 0
    ELSE IF Head(runs)[2].Timestamp > 0 THEN Head(runs)[2].Timestamp
    ELSE FirstStamp(Tail(runs))

RECURSIVE LastStamp(_)
LastStamp(runs) ==
    IF runs = <<>> THEN 0
    ELSE IF LastStamp(Tail(runs)) > 0 THEN LastStamp(Tail(runs))
    ELSE Head(runs)[2].Timestamp

\* the events the returned probe had read
ReadEvents == TakeRuns(pStream.runs, pResult.reads)

\* the probe of efficient_finder.go started its stream and has returned
ProbeReturned == ppc = "returned" /\ ~pChecked /\ pStream.startOK

\* the context was found done in the first loop (line 125)
HeadTimeout ==
    /\ ProbeReturned
    /\ pResult.reads < headEvents
    /\ pResult.reads = pDeadline

\* C30: at every exit the returned range carries what was collected: startTime
\* is the first non-zero timestamp among the events read in the first loop and
\* endTime the last non-zero timestamp read so far, also when the time budget
\* ends in the first loop
C30_ReturnsCollectedBounds ==
    ProbeReturned =>
        /\ ~pResult.err
        /\ pResult.timeRange.StartTime =
               TimeOf(FirstStamp(TakeRuns(pStream.runs, Min2(pResult.reads, headEvents))))
        /\ pResult.timeRange.EndTime = TimeOf(LastStamp(ReadEvents))

\* the same statement for every exit but the expiry of the budget in the first
\* loop
C30_ExceptHeadTimeout ==
    (ProbeReturned /\ ~HeadTimeout) =>
        /\ ~pResult.err
        /\ pResult.timeRange.StartTime =
               TimeOf(FirstStamp(TakeRuns(pStream.runs, Min2(pResult.reads, headEvents))))
        /\ pResult.timeRange.EndTime = TimeOf(LastStamp(ReadEvents))

\* on that exit the end is never set (line 126-129)
C30_HeadTimeoutDropsEnd ==
    HeadTimeout =>
        /\ pResult.timeRange.StartTime = TimeOf(FirstStamp(ReadEvents))
        /\ pResult.timeRange.EndTime = ZeroTime

\* ------------------------------------------------------------------------
\* The two phases of getFileTimeRangeQuick (efficient_finder.go:118-190)
\* ------------------------------------------------------------------------
\* a stream without its first k events, as runs
RECURSIVE DropRuns(_, _)
DropRuns(runs, k) ==
    IF runs = <<>> \/ k = 0 THEN runs
    ELSE IF Head(runs)[1] > k THEN <<<<Head(runs)[1] - k, Head(runs)[2]>>>> \o Tail(runs)
    ELSE DropRuns(Tail(runs), k - Head(runs)[1])

\* how many events of a stream carry a timestamp
RECURSIVE StampedCount(_)
StampedCount(runs) ==
    IF runs = <<>> THEN 0
    ELSE (IF Head(runs)[2].Timestamp > 0 THEN Head(runs)[1] ELSE 0) + StampedCount(Tail(runs))

\* the events the returned probe read in its second loop
TailRead == DropRuns(ReadEvents, headEvents)

C32_OnePerKey ==
    dpc \in {"once", "twice"} =>
        /\ Len(uniqueEvents) = Cardinality(EventKeys(allEvents))
        /\ EventKeys(uniqueEvents) = EventKeys(allEvents)
        /\ \A i \in 1..Len(uniqueEvents) : uniqueEvents[i] \in Range(allEvents)
        /\ duplicateCount = Len(allEvents) - Len(uniqueEvents)

\* a group for which selectOriginalEvent finds no record: its Position is
\* ^uint32(0) and none of its file numbers exceeds 0
UnselectableGroup(key) ==
    /\ key[1] = MaxUint32
    /\ Len(EventGroup(allEvents, key)) > 1
    /\ \A ev \in Range(EventGroup(allEvents, key)) : extractFileNumber(ev.Filename) <= 0

\* the same statement for inputs without such a group, and the count for all
C32_ExceptUnselectable ==
    dpc \in {"once", "twice"} =>
        /\ Len(uniqueEvents) = Cardinality(EventKeys(allEvents))
        /\ duplicateCount = Len(allEvents) - Len(uniqueEvents)
        /\ (\A key \in EventKeys(allEvents) : ~UnselectableGroup(key)) =>
               /\ EventKeys(uniqueEvents) = EventKeys(allEvents)
               /\ \A i \in 1..Len(uniqueEvents) : uniqueEvents[i] \in Range(allEvents)

\* ------------------------------------------------------------------------
\* removeDuplicateEvents on a list and on a reordering of it
\* (analyzer.go:410-498)
\* ------------------------------------------------------------------------
\* names that tie on the file number: b.04 and b.4 (4), b.00 and b.0 (0), b.x
\* and b (both unparsable)
FileB4 == <<"b", ".", "4">>
FileB0 == <<"b", ".", "0">>
FileBx == <<"b", ".", "x">>
FileNoDot == <<"b">>

TiedFiles == {FileB04, FileB4, FileB00, FileB0, FileBx, FileNoDot}

TiedEvents == {SQLEvent(4, 10, f, "QUERY") : f \in TiedFiles}

PermuteInit ==
    /\ CfgIdle /\ ExtractIdle /\ PoolIdle /\ LocateIdle /\ ProbeIdle /\ ReportIdle /\ MainIdle
    /\ FormatIdle /\ TallyIdle
    /\ dpc = "in"
    /\ allEvents \in SeqsUpTo(TiedEvents, MaxPooled)
    /\ uniqueEvents = <<>>
    /\ duplicateCount = 0
    /\ uniqueEvents2 = <<>>
    /\ duplicateCount2 = 0

\* the deduplicator applied to the same records in another order
DeduplicatePermuted ==
    /\ dpc = "once"
    /\ \E perm \in Orderings(1..Len(allEvents)) :
         LET permuted == [i \in 1..Len(allEvents) |-> allEvents[perm[i]]]
         IN  \E keyOrder \in Orderings(EventKeys(permuted)) :
                 LET r == removeDuplicateEvents(permuted, keyOrder)
                 IN  /\ uniqueEvents2' = r.uniqueEvents
                     /\ duplicateCount2' = r.duplicateCount
    /\ dpc' = "permuted"
    /\ UNCHANGED <<allEvents, uniqueEvents, duplicateCount>>
    /\ UNCHANGED outsideDedup

PermuteNext == Deduplicate \/ DeduplicatePermuted

SpecPermute == PermuteInit /\ [][PermuteNext]_vars

\* C34: the records that survive are the same for every order of the input
C34_OrderIndependent ==
    dpc = "permuted" =>
        /\ Range(uniqueEvents2) = Range(uniqueEvents)
        /\ duplicateCount2 = duplicateCount

FileNumbers(events) == {extractFileNumber(events[i].Filename) : i \in 1..Len(events)}

\* what holds in every order: the file number of the survivor and the count
C34_SameFileNumber ==
    dpc = "permuted" =>
        /\ FileNumbers(uniqueEvents2) = FileNumbers(uniqueEvents)
        /\ duplicateCount2 = duplicateCount

\* ------------------------------------------------------------------------
\* A panic of GetEvent in ExtractFromSingleFile (unnamed/part_002:142-166)
\* ------------------------------------------------------------------------
\* the call read every event of its stream, none of them after the window, and
\* its next read panicked
PanickedRead ==
    /\ xpc \in {"returned", "crashed"}
    /\ xStream.startOK /\ xStream.ending = "panic"
    /\ xDeadline > Len(xStream.events)
    /\ \A i \in 1..Len(xStream.events) : xStream.events[i].Timestamp <= cfgEndTime

\* C33: when the read of an event panics, ExtractFromSingleFile still returns,
\* without an unrecovered panic, and hands back the events it had collected
C33_PanicEndsGracefully ==
    PanickedRead =>
        /\ xpc = "returned"
        /\ ~xResult.crashed
        /\ xResult.reads = Len(xStream.events)

\* what the code does instead: every such call ends in a panic of its own
C33_PanicEscapes ==
    PanickedRead => (xpc = "crashed" /\ xResult.crashed)

\* without a panicking read no call ends in a panic
C33_OnlyPanickedReadsCrash ==
    xpc = "crashed" => PanickedRead

\* ------------------------------------------------------------------------
\* When getFileTimeRangeQuick returns an error (efficient_finder.go:109-139,
\* 167-175)
\* ------------------------------------------------------------------------
\* C35: a probe returns an error exactly when its stream could not be started;
\* a probe whose stream was open and that read no timestamp, whether the stream
\* broke at once or after events without one, returns no error and a range
\* without bounds, and isFileInTimeRange selects that range
C35_OnlyStartFails ==
    ppc = "returned" =>
        /\ pResult.err <=> ~pStream.startOK
        /\ (pStream.startOK /\ StampedCount(ReadEvents) = 0) =>
               /\ pResult.timeRange = RangeUnknown
               /\ isFileInTimeRange(pResult.timeRange, LocWindow.StartTime, LocWindow.EndTime)

\* the stream broke after one event without a timestamp, before the deadline
C35_Witness ==
    /\ ppc = "returned" /\ ~pChecked /\ pStream.startOK
    /\ StreamLen(pStream.runs) = 1
    /\ pResult.reads = 1 /\ pDeadline > 1
    /\ StampedCount(ReadEvents) = 0
    /\ ~pResult.err
    /\ pResult.timeRange = RangeUnknown

\* ------------------------------------------------------------------------
\* The replica ServerID of every open stream (efficient_finder.go:36,
\* concurrent_finder.go:93, unnamed/part_002:84)
\* ------------------------------------------------------------------------
extractServerID == 100

\* the streams of the extraction calls in progress: a worker that holds a file
\* is inside ExtractFromSingleFile, whose stream is open from StartSync until
\* the call ends
ExtractionStreams ==
    {[owner |-> w, file |-> wFile[w], serverId |-> extractServerID] :
        w \in {v \in DOMAIN wpc : wpc[v] = "extract" /\ fileStreams[wFile[v]].startOK}}

\* with the streams the probes opened, none of which is ever closed
OpenStreams ==
    {[phase |-> "probe", owner |-> c.owner, file |-> c.file, serverId |-> c.serverId] :
        c \in conns}
    \cup {[phase |-> "extract", owner |-> x.owner, file |-> x.file, serverId |-> x.serverId] :
             x \in ExtractionStreams}

\* C36: no two open streams are registered under the same ServerID
C36_DistinctServerIDs ==
    \A a, b \in OpenStreams : a # b => a.serverId # b.serverId

\* the same for the extraction workers alone
C36_ExtractionServerIDs ==
    \A a, b \in ExtractionStreams : a # b => a.serverId # b.serverId

\* the same for the probes of different workers: these do differ
C36_ProbeWorkersDiffer ==
    \A a, b \in conns : (a.owner # b.owner) => a.serverId # b.serverId

\* ------------------------------------------------------------------------
\* The two bounds of a returned range (efficient_finder.go:103-190)
\* ------------------------------------------------------------------------
\* C37: a range returned by the probe never has an end without a start
C37_EndImpliesStart ==
    ProbeReturned =>
        (pResult.timeRange.EndTime # ZeroTime => pResult.timeRange.StartTime # ZeroTime)

\* the same for the probes that read a timestamp among their first 50 events
\* or did not get beyond them
C37_WhenHeadHasTimestamp ==
    (ProbeReturned /\ (pResult.reads <= headEvents
                       \/ StampedCount(TakeRuns(pStream.runs, headEvents)) > 0)) =>
        (pResult.timeRange.EndTime # ZeroTime => pResult.timeRange.StartTime # ZeroTime)

\* ------------------------------------------------------------------------
\* The pooled events of the two extraction paths of Analyze
\* (analyzer.go:140-234)
\* ------------------------------------------------------------------------
\* lines 218-233: what the verbose loop pools from the outcomes of the files,
\* taken in the order of the target list
RECURSIVE VerbosePool(_)
VerbosePool(fs) ==
    IF fs = <<>> THEN <<>>
    ELSE (IF extracted[Head(fs)] = NoResult \/ extracted[Head(fs)].err
          THEN <<>>
          ELSE extracted[Head(fs)].events) \o VerbosePool(Tail(fs))

CountIn(ev, evs) == Cardinality({i \in 1..Len(evs) : evs[i] = ev})

SameMultiset(a, b) ==
    \A ev \in Range(a) \cup Range(b) : CountIn(ev, a) = CountIn(ev, b)

\* C38: whichever path pooled the events, the pool holds, as a multiset, what
\* the verbose loop pools from the same outcomes of the same files
C38_SamePoolBothPaths ==
    cpc = "pooled" =>
        /\ \A f \in Range(targetFiles) : extracted[f] # NoResult
        /\ SameMultiset(allEvents, VerbosePool(targetFiles))

\* the verbose path itself pools exactly that list
C38_VerbosePath ==
    (cpc = "pooled" /\ cfgVerbose) =>
        /\ \A f \in Range(targetFiles) : extracted[f] # NoResult
        /\ allEvents = VerbosePool(targetFiles)

\* the worker pool never pools an event that the verbose path would not pool
C38_WorkerPoolPoolsNoMore ==
    (cpc = "pooled" /\ ~cfgVerbose) =>
        \A ev \in Range(allEvents) : CountIn(ev, allEvents) <= CountIn(ev, VerbosePool(targetFiles))

====
